---- MODULE Spec2Model ----
(***************************************************************************)
(* Verification model of the sentry-bridge streaming engine (go-engine).   *)
(*                                                                         *)
(* Part 1: brain.Pipe (go-engine/brain/pipe.go): StartPipe, the supervisor *)
(* goroutine, Send and Close, together with the child processes and the    *)
(* callbacks of runStreaming (go-engine/main.go) that fan an event out to  *)
(* the pipe and to the publisher (go-engine/redis/publish.go).             *)
(*                                                                         *)
(* Part 2: one callback of runStreaming run with the no-op publisher, a    *)
(* publisher that succeeds and a publisher that fails, side by side.       *)
(*                                                                         *)
(* Part 3: brain.State (go-engine/brain/pipe.go): the rolling price and    *)
(* volume windows per symbol, RecordTrade, volumeSince, returnSince and    *)
(* Session.                                                                *)
(***************************************************************************)
EXTENDS Integers, Sequences, FiniteSets, TLC

(* ---------------------------------------------------------------------- *)
(* Bounds of the model                                                     *)
(* ---------------------------------------------------------------------- *)
MaxSpawns == 2      \* processes ever started by one handle
PipeCap   == 1      \* lines the OS pipe holds before a write blocks
MaxCmdLen == 1      \* characters of a command line
MaxFanEvents == 3   \* events handed to the callbacks of part 2
MaxTrades == 3      \* calls of RecordTrade on one State
MaxConcTrades == 2  \* calls of RecordTrade made by concurrent callers
MaxVolCalls == 3    \* calls of SetVolatility and SetVolatilityMap
MaxRefreshes == 2   \* successful calls of updateVolatility
MaxFrames == 4      \* frames read by one call of Run
MaxRuns == 2        \* calls of Run of the stream clients
MaxRunCalls == 3    \* calls of Run made by one reconnect loop
MaxCallbacks == 2   \* calls of OnTrade and OnQuote with their payload kept
MaxEntries == 3     \* message objects handled by PriceStream.handleMessage

(* Program constants *)
brainRestartBackoff == 5       \* seconds of sleep before a re-spawn

Minute   == 1                  \* time.Minute: instants are counted in minutes
lookback == 6 * Minute         \* how long price and volume points are kept
ZeroTime == -1                 \* the zero time.Time (t.IsZero())

Senders == {"price", "news"}   \* tasks of runStreaming that call Send
Closers == {"main", "other"}   \* callers of Close
Pids    == 1..MaxSpawns
Nil     == 0                   \* a nil pointer (no process, no writer)
NL      == "\n"                \* the byte that ends a line
Chars   == {" ", "x"}
CmdLines == UNION {[1..n -> Chars] : n \in 0..MaxCmdLen}

VARIABLES
    (* brain.Pipe fields *)
    cmd, stdinPipe, stdin, closed, shutdown, cmdLine, done, mu,
    (* the bufio.Writer p.stdin: buffered bytes and its sticky error *)
    wbuf, werr,
    (* StartPipe: its result "none" (not called), "handle", "nil", "err",   *)
    (* its argument and whether the operating system could start the program *)
    startRes, startArg, startOutcome,
    (* supervisor goroutine: position, local cmd, local newCmd, sleep timer *)
    supPc, supCmd, supNew, sleepLeft,
    (* operating system: live processes, their argv, pipes *)
    live, argv, eof, childIn, nspawn,
    (* callers of Close *)
    closePc,
    (* callbacks of runStreaming *)
    pc, inbox, sendRes, sendDead

pipeVars == <<cmd, stdinPipe, stdin, closed, shutdown, cmdLine, done, mu,
              wbuf, werr, startRes, startArg, startOutcome,
              supPc, supCmd, supNew, sleepLeft,
              live, argv, eof, childIn, nspawn, closePc,
              pc, inbox, sendRes, sendDead>>

(* Part 2: the callbacks of runStreaming run with each kind of publisher  *)
(* side by side on the same events: per kind of publisher, what the pipe   *)
(* was sent, the publish calls made, the errors logged, and whether the    *)
(* task is still running.                                                  *)
VARIABLES fan, fanCount

fanVars == <<fan, fanCount>>

(* Part 3: brain.State: the price and the volume window of every symbol;   *)
(* trades is the history of the RecordTrade calls made, per symbol, each   *)
(* with the time the call took for "now".                                  *)
VARIABLES priceHistory, volumeHistory, trades

stateVars == <<priceHistory, volumeHistory, trades>>

(* Session: the location loaded by init() of package brain, the instant    *)
(* the clock shows (UTC minute of the day, day of the week, whether New    *)
(* York is on daylight saving time), and the result of the call of Session *)
(* made at this instant ("none" when none was made).                       *)
VARIABLES eastern, clock, session

sessVars == <<eastern, clock, session>>

(* Concurrent callers of one State: who holds State.mu for writing and    *)
(* for reading, where each caller of RecordTrade is and with what          *)
(* arguments, where each caller of volumeSince / returnSince is and what   *)
(* window it read.                                                         *)
VARIABLES smuW, smuR, wpc, wargs, rpc, seen

lockVars == <<smuW, smuR, wpc, wargs, rpc, seen>>

(* State.volatility, and the calls of SetVolatility and SetVolatilityMap   *)
(* made so far, each as the map of the symbols it mentions.                *)
VARIABLES stateVolatility, volCalls

svolVars == <<stateVolatility, volCalls>>

(* run()'s brainPipe and volatility map, and what the last call of         *)
(* updateVolatility was given and did.                                     *)
VARIABLES brainPipe, volatility, refresh

refVars == <<brainPipe, volatility, refresh>>

(* one call of Run of a stream client: the client, the position of Run,    *)
(* the connection, the action messages written, the frames read, the       *)
(* callbacks invoked, the handleMessage errors logged, the error returned, *)
(* the calls of Run so far, the calls of Dial and the dial, read and write *)
(* errors of this call of Run, the lines its callbacks wrote to the pipe,   *)
(* and the seconds Run has been blocked in the read of the response to its *)
(* auth message.                                                           *)
VARIABLES client, runPc, conn, wrote, frames, dispatched, slogged, runErr, runs,
          dials, ioErrs, piped, waited

strmVars ==
    <<client, runPc, conn, wrote, frames, dispatched, slogged, runErr, runs,
      dials, ioErrs, piped, waited>>

(* main: the configuration loaded, the position of main, the exit status,  *)
(* what the process has done to the outside (spawn, redis, fetch, dial),   *)
(* the Decision-Process Supervisor, ctx, the signal received, the position *)
(* of each background task, whether its ticker holds a tick, and the calls *)
(* of Run each stream task has made.                                       *)
VARIABLES cfg, mainPc, exitCode, effects, supervisor, cancelled, signalled,
          taskPc, tickReady, runCalls

orchVars ==
    <<cfg, mainPc, exitCode, effects, supervisor, cancelled, signalled,
      taskPc, tickReady, runCalls>>

(* the trade and quote callbacks of runStreaming: the calls made so far,   *)
(* and of the last one its kind, the payload it built, whether the handle  *)
(* was up, what Send returned and the lines that reached the child's       *)
(* input.                                                                  *)
VARIABLES callback, cbCount

cbVars == <<callback, cbCount>>

(* PriceStream.handleMessage: the last-known-price cache p.prices, the     *)
(* decoded frames handled so far, and the calls of OnTrade and OnQuote     *)
(* made, each with the frame and the position of its message.              *)
VARIABLES prices, handled, invoked

feedVars == <<prices, handled, invoked>>

(* NewsStream: n.symbols, where its Run is, the "news" list of the         *)
(* subscribe message it wrote, the frames its loop read, and the ids of    *)
(* the articles handed to OnNews.                                          *)
VARIABLES nsym, nsPc, nsub, nhandled, articles

newsVars == <<nsym, nsPc, nsub, nhandled, articles>>

(* the positions timer: the value of POSITIONS_INTERVAL_SEC, the loaded    *)
(* cfg.PositionsIntervalSec, where the timer task is, the period of its    *)
(* ticker, the seconds since its last tick, the calls of                   *)
(* pushPositionsAndOrders made, and of the last one the results of its two *)
(* fetches and the events it emitted.                                      *)
VARIABLES posEnv, intervalSec, pollPc, period, sinceTick, polls, polled

pollVars == <<posEnv, intervalSec, pollPc, period, sinceTick, polls, polled>>

nonPipeVars  == <<fanVars, stateVars, sessVars, lockVars, svolVars, refVars, strmVars, orchVars, cbVars, feedVars, newsVars, pollVars>>
nonFanVars   == <<pipeVars, stateVars, sessVars, lockVars, svolVars, refVars, strmVars, orchVars, cbVars, feedVars, newsVars, pollVars>>
nonStateVars == <<pipeVars, fanVars, sessVars, lockVars, svolVars, refVars, strmVars, orchVars, cbVars, feedVars, newsVars, pollVars>>
nonSessVars  == <<pipeVars, fanVars, stateVars, lockVars, svolVars, refVars, strmVars, orchVars, cbVars, feedVars, newsVars, pollVars>>
nonConcVars  == <<pipeVars, fanVars, sessVars, svolVars, refVars, strmVars, orchVars, cbVars, feedVars, newsVars, pollVars>>
nonSvolVars  == <<pipeVars, fanVars, stateVars, sessVars, lockVars, refVars, strmVars, orchVars, cbVars, feedVars, newsVars, pollVars>>

nonRefVars   == <<pipeVars, fanVars, stateVars, sessVars, lockVars, strmVars, orchVars, cbVars, feedVars, newsVars, pollVars>>

nonStrmVars  ==
    <<pipeVars, fanVars, stateVars, sessVars, lockVars, svolVars, refVars,
      orchVars, cbVars, feedVars, newsVars, pollVars>>
nonOrchVars  ==
    <<pipeVars, fanVars, stateVars, sessVars, lockVars, svolVars, refVars,
      strmVars, cbVars, feedVars, newsVars, pollVars>>

nonCbVars ==
    <<pipeVars, fanVars, stateVars, sessVars, lockVars, svolVars, refVars,
      strmVars, orchVars, feedVars, newsVars, pollVars>>
nonCbStateVars ==
    <<pipeVars, fanVars, sessVars, lockVars, svolVars, refVars, strmVars,
      orchVars, feedVars, newsVars, pollVars>>
nonFeedVars ==
    <<pipeVars, fanVars, stateVars, sessVars, lockVars, svolVars, refVars,
      strmVars, orchVars, cbVars, newsVars, pollVars>>
nonNewsVars ==
    <<pipeVars, fanVars, stateVars, sessVars, lockVars, svolVars, refVars,
      strmVars, orchVars, cbVars, feedVars, pollVars>>
nonPollVars ==
    <<pipeVars, fanVars, stateVars, sessVars, lockVars, svolVars, refVars,
      strmVars, orchVars, cbVars, feedVars, newsVars>>

vars ==
    <<pipeVars, fanVars, stateVars, sessVars, lockVars, svolVars, refVars,
      strmVars, orchVars, cbVars, feedVars, newsVars, pollVars>>

(* ---------------------------------------------------------------------- *)
(* splitCmd: strings.Fields                                                *)
(* ---------------------------------------------------------------------- *)
RECURSIVE FieldsAcc(_, _, _)
FieldsAcc(s, cur, acc) ==
    IF s = <<>> THEN (IF cur = <<>> THEN acc ELSE Append(acc, cur))
    ELSE IF Head(s) = " "
         THEN FieldsAcc(Tail(s), <<>>, IF cur = <<>> THEN acc ELSE Append(acc, cur))
         ELSE FieldsAcc(Tail(s), Append(cur, Head(s)), acc)

splitCmd(s) == FieldsAcc(s, <<>>, <<>>)

(* The JSON line of an event of task s, without its newline: more than    *)
(* one byte, so that two lines can interleave.                             *)
Line(s) == <<s, s>>

LineLen == Len(Line("x")) + 1

(* what is left of the pipe's content after the reader took one line *)
RECURSIVE AfterFirstLine(_)
AfterFirstLine(bytes) ==
    IF bytes = <<>> THEN <<>>
    ELSE IF Head(bytes) = NL THEN Tail(bytes)
    ELSE AfterFirstLine(Tail(bytes))

PipeInit ==
    /\ cmd = Nil /\ stdinPipe = Nil /\ stdin = Nil
    /\ closed = FALSE /\ shutdown = FALSE
    /\ cmdLine = <<>> /\ done = FALSE /\ mu = "free"
    /\ wbuf = <<>> /\ werr = FALSE
    /\ startRes = "none" /\ startArg = <<>> /\ startOutcome = "none"
    /\ supPc = "none" /\ supCmd = Nil /\ supNew = Nil /\ sleepLeft = 0
    /\ live = {} /\ argv = [p \in Pids |-> <<>>] /\ eof = {}
    /\ childIn = [p \in Pids |-> <<>>]
    /\ nspawn = 0
    /\ closePc = [c \in Closers |-> "idle"]
    /\ pc = [s \in Senders |-> "idle"]
    /\ inbox = [s \in Senders |-> FALSE]
    /\ sendRes = [s \in Senders |-> "none"]
    /\ sendDead = [s \in Senders |-> FALSE]

PubKinds == {"noop", "ok", "fail"}   \* NoopPublisher, Publisher, Publisher
                                     \* whose XAdd returns an error
EventTypes == {"trade", "quote", "news", "volatility", "positions", "orders"}

FanInit ==
    /\ fan = [k \in PubKinds |->
                [pipe |-> <<>>, calls |-> 0, logged |-> 0, alive |-> TRUE]]
    /\ fanCount = 0

(* Part 3: brain.State *)
Symbols == {"A", "B"}

(* Instants at which trades are stamped and the clock is read: every      *)
(* distance from one minute to lookback + 1 minutes lies between two of    *)
(* them.                                                                   *)
Times == {0, Minute, 3 * Minute, lookback, lookback + Minute}

(* price and size of a trade message: a missing "p" or "s" gives 0 *)
TradeInputs == {[p |-> 100, v |-> 10], [p |-> 101, v |-> 20], [p |-> 0, v |-> 0]}

(* the look-back durations of Volume1m, Volume5m, Return1m, Return5m *)
Durations == {Minute, 5 * Minute}

StateInit ==
    /\ priceHistory = [s \in Symbols |-> <<>>]
    /\ volumeHistory = [s \in Symbols |-> <<>>]
    /\ trades = [s \in Symbols |-> <<>>]

(* Session *)
MinutesPerDay == 24 * 60
DaysPerWeek == 7

SessionInit ==
    /\ eastern = "unset"
    /\ clock = [min |-> 0, wd |-> 0, dst |-> FALSE]
    /\ session = "none"

(* concurrent callers of State *)
Writers == {"w1", "w2"}
Readers == {"r1", "r2"}
NoArgs == [sym |-> "", p |-> 0, v |-> 0, now |-> 0]
NoRead == [kind |-> "", sym |-> "", h |-> <<>>]

LockInit ==
    /\ smuW = "" /\ smuR = {}
    /\ wpc = [w \in Writers |-> "idle"]
    /\ wargs = [w \in Writers |-> NoArgs]
    /\ rpc = [r \in Readers |-> "idle"]
    /\ seen = [r \in Readers |-> NoRead]

(* volatility values: a float64 as a fraction <<numerator, denominator>>,   *)
(* NaN as 0/0; an absent key of a map as the empty tuple                   *)
NaN == <<0, 0>>
Unset == <<>>
VolValues == {<<0, 1>>, <<1, 1>>, <<2, 1>>}

(* the maps from some symbols to volatility values *)
VolMaps == UNION {[K -> VolValues] : K \in SUBSET Symbols}

SvolInit ==
    /\ stateVolatility = [s \in Symbols |-> Unset]
    /\ volCalls = <<>>

(* cfg.Tickers *)
Tickers == <<"A", "B">>

(* a daily bar is its Close: ZeroClose is a close of 0, a level c >= 1 is   *)
(* the close base^c of a logarithmic price grid, so that the log return of *)
(* two positive closes is the difference of their levels                   *)
ZeroClose == 0

(* the bars GetBars returns for one symbol: none, one, two, three flat,    *)
(* three moving, three with a close of 0 in the middle                     *)
BarSeries ==
    { <<>>, <<1>>, <<1, 2>>, <<1, 1, 1>>, <<2, 3, 1>>, <<1, ZeroClose, 1>> }

(* barsResp.Bars: a map from some symbols to their bars *)
BarMaps == UNION {[K -> BarSeries] : K \in SUBSET Symbols}

(* what GetBars returns: an error, or a response *)
BarsResponses ==
    {[err |-> TRUE, Bars |-> <<>>]} \cup {[err |-> FALSE, Bars |-> m] : m \in BarMaps}

NoRefresh ==
    [resp |-> [err |-> TRUE, Bars |-> <<>>], before |-> <<>>, trace |-> <<>>]

RefInit ==
    /\ brainPipe = "unset"
    /\ volatility = [s \in Symbols |-> Unset]
    /\ refresh = NoRefresh

(* the two stream clients *)
Clients == {"price", "news"}

(* seconds within which the response to the auth message is due *)
AuthTimeout == 10

(* a frame: whether it decodes as an array of objects, and the T of each   *)
(* object                                                                  *)
Bad == [ok |-> FALSE, arr |-> <<>>]
Frames ==
    {Bad} \cup
    {[ok |-> TRUE, arr |-> a] :
        a \in { <<>>, <<"success">>, <<"subscription">>, <<"error">>,
                <<"t">>, <<"q">>, <<"n">>, <<"t", "q">> }}

(* what ReadMessage returns: a transport error, or a frame *)
ReadOutcomes ==
    {[err |-> TRUE, data |-> Bad]} \cup {[err |-> FALSE, data |-> f] : f \in Frames}

StreamInit ==
    /\ client = "price"
    /\ runPc = "disconnected"
    /\ conn = "none"
    /\ wrote = <<>>
    /\ frames = <<>>
    /\ dispatched = <<>>
    /\ slogged = 0
    /\ runErr = ""
    /\ runs = 0
    /\ dials = 0
    /\ ioErrs = 0
    /\ piped = <<>>
    /\ waited = 0

(* the background tasks of runStreaming *)
Streams == {"price", "news"}
Timers == {"volatility", "positions"}
Tasks == Streams \cup Timers

(* what config.Load can return: each credential absent or present, the     *)
(* symbol list empty or not, streaming or one-shot, with or without a      *)
(* brain command and a Redis URL                                           *)
Configs ==
    [APIKeyID : {"", "key"}, APISecretKey : {"", "secret"},
     Tickers : {<<>>, <<"A">>}, StreamingMode : BOOLEAN,
     BrainCmd : {"", "cmd"}, RedisURL : {"", "url"}]

NoConfig ==
    [APIKeyID |-> "", APISecretKey |-> "", Tickers |-> <<>>,
     StreamingMode |-> FALSE, BrainCmd |-> "", RedisURL |-> ""]

(* the signals the process can receive *)
Signals == {"interrupt", "terminate"}

OrchInit ==
    /\ cfg = NoConfig
    /\ mainPc = "start"
    /\ exitCode = -1
    /\ effects = {}
    /\ supervisor = "none"
    /\ cancelled = FALSE
    /\ signalled = ""
    /\ taskPc = [t \in Tasks |-> "unborn"]
    /\ tickReady = [t \in Timers |-> FALSE]
    /\ runCalls = [s \in Streams |-> 0]

(* no callback has run *)
NoCallback ==
    [typ |-> "", payload |-> [symbol |-> ""], up |-> FALSE, res |-> "",
     lines |-> <<>>]

CallbackInit ==
    /\ callback = NoCallback
    /\ cbCount = 0

(* NewPriceStream: prices: make(map[string]float64) *)
FeedInit ==
    /\ prices = <<>>
    /\ handled = <<>>
    /\ invoked = <<>>

(* before NewNewsStream *)
NewsInit ==
    /\ nsym = <<>>
    /\ nsPc = "none"
    /\ nsub = <<>>
    /\ nhandled = <<>>
    /\ articles = <<>>

(* no call of pushPositionsAndOrders has been made *)
NoPoll == [posOk |-> FALSE, ordOk |-> FALSE, trace |-> <<>>]

(* before config.Load *)
PollInit ==
    /\ posEnv = <<>>
    /\ intervalSec = 0
    /\ pollPc = "unloaded"
    /\ period = 0
    /\ sinceTick = 0
    /\ polls = 0
    /\ polled = NoPoll

Init ==
    /\ PipeInit /\ FanInit /\ StateInit /\ SessionInit /\ LockInit /\ SvolInit
    /\ RefInit /\ StreamInit /\ OrchInit /\ CallbackInit /\ FeedInit
    /\ NewsInit /\ PollInit


(* ---------------------------------------------------------------------- *)
(* StartPipe(cmdLine)                                                      *)
(* ---------------------------------------------------------------------- *)
SpawnOutcomes == {"ok", "pipe_err", "start_err"}

(* StartPipe that ignores the errors of StdinPipe and Start *)
StartPipeIgnoreErr(line, outcome) ==
    /\ startRes = "none"
    /\ startArg' = line
    /\ startOutcome' = outcome
    /\ IF Len(splitCmd(line)) = 0
       THEN /\ startRes' = "nil"
            /\ UNCHANGED <<cmd, stdinPipe, stdin, cmdLine, supPc, live, argv, nspawn>>
       ELSE /\ startRes' = "handle"
            /\ nspawn' = nspawn + 1
            /\ live' = IF outcome = "ok" THEN live \cup {nspawn + 1} ELSE live
            /\ argv' = [argv EXCEPT ![nspawn + 1] = splitCmd(line)]
            /\ cmd' = nspawn + 1
            /\ stdinPipe' = nspawn + 1
            /\ stdin' = nspawn + 1
            /\ cmdLine' = line
            /\ supPc' = "load"
    /\ UNCHANGED <<closed, shutdown, done, mu, wbuf, werr, supCmd, supNew,
                   sleepLeft, eof, childIn, closePc,
                   pc, inbox, sendRes, sendDead>>
    /\ UNCHANGED nonPipeVars

StartPipe(line, outcome) ==
    /\ startRes = "none"
    /\ startArg' = line
    /\ startOutcome' = outcome
    /\ IF Len(splitCmd(line)) = 0
       THEN /\ startRes' = "nil"
            /\ UNCHANGED <<cmd, stdinPipe, stdin, cmdLine, supPc, live, argv, nspawn>>
       ELSE IF outcome # "ok"
       THEN /\ startRes' = "err"
            /\ UNCHANGED <<cmd, stdinPipe, stdin, cmdLine, supPc, live, argv, nspawn>>
       ELSE /\ startRes' = "handle"
            /\ nspawn' = nspawn + 1
            /\ live' = live \cup {nspawn + 1}
            /\ argv' = [argv EXCEPT ![nspawn + 1] = splitCmd(line)]
            /\ cmd' = nspawn + 1
            /\ stdinPipe' = nspawn + 1
            /\ stdin' = nspawn + 1
            /\ cmdLine' = line
            /\ supPc' = "load"
    /\ UNCHANGED <<closed, shutdown, done, mu, wbuf, werr, supCmd, supNew,
                   sleepLeft, eof, childIn, closePc,
                   pc, inbox, sendRes, sendDead>>
    /\ UNCHANGED nonPipeVars

(* ---------------------------------------------------------------------- *)
(* Pipe.supervisor                                                         *)
(* ---------------------------------------------------------------------- *)
(* lines 65-67: cmd := p.cmd under the lock *)
SupLoad ==
    /\ supPc = "load" /\ mu = "free"
    /\ supCmd' = cmd
    /\ supPc' = "wait"
    /\ UNCHANGED <<cmd, stdinPipe, stdin, closed, shutdown, cmdLine, done, mu,
                   wbuf, werr, startRes, startArg, startOutcome, supNew, sleepLeft,
                   live, argv, eof, childIn, nspawn, closePc,
                   pc, inbox, sendRes, sendDead>>
    /\ UNCHANGED nonPipeVars

(* SupWait that does not wait for the process to exit *)
SupWaitNoWait ==
    /\ supPc = "wait"
    /\ supCmd' = Nil
    /\ supPc' = "check"
    /\ UNCHANGED <<cmd, stdinPipe, stdin, closed, shutdown, cmdLine, done, mu,
                   wbuf, werr, startRes, startArg, startOutcome, supNew, sleepLeft,
                   live, argv, eof, childIn, nspawn, closePc,
                   pc, inbox, sendRes, sendDead>>
    /\ UNCHANGED nonPipeVars

(* lines 68-70: cmd.Wait() returns once the process has exited; skipped    *)
(* when cmd is nil                                                         *)
SupWait ==
    /\ supPc = "wait"
    /\ supCmd = Nil \/ supCmd \notin live
    /\ supCmd' = Nil
    /\ supPc' = "check"
    /\ UNCHANGED <<cmd, stdinPipe, stdin, closed, shutdown, cmdLine, done, mu,
                   wbuf, werr, startRes, startArg, startOutcome, supNew, sleepLeft,
                   live, argv, eof, childIn, nspawn, closePc,
                   pc, inbox, sendRes, sendDead>>
    /\ UNCHANGED nonPipeVars

(* SupCheck without the backoff: the loop goes on to the next check at once *)
SupCheckNoSleep ==
    /\ supPc = "check" /\ mu = "free"
    /\ closed' = TRUE
    /\ IF shutdown
       THEN /\ supPc' = "done" /\ done' = TRUE /\ UNCHANGED sleepLeft
       ELSE /\ supPc' = "recheck" /\ sleepLeft' = 0
            /\ UNCHANGED done
    /\ UNCHANGED <<cmd, stdinPipe, stdin, shutdown, cmdLine, mu,
                   wbuf, werr, startRes, startArg, startOutcome, supCmd, supNew,
                   live, argv, eof, childIn, nspawn, closePc,
                   pc, inbox, sendRes, sendDead>>
    /\ UNCHANGED nonPipeVars

(* lines 71-80: mark the handle down; return if shutdown (the deferred     *)
(* doneOnce closes done), else start the backoff sleep                     *)
SupCheck ==
    /\ supPc = "check" /\ mu = "free"
    /\ closed' = TRUE
    /\ IF shutdown
       THEN /\ supPc' = "done" /\ done' = TRUE /\ UNCHANGED sleepLeft
       ELSE /\ supPc' = "sleep" /\ sleepLeft' = brainRestartBackoff
            /\ UNCHANGED done
    /\ UNCHANGED <<cmd, stdinPipe, stdin, shutdown, cmdLine, mu,
                   wbuf, werr, startRes, startArg, startOutcome, supCmd, supNew,
                   live, argv, eof, childIn, nspawn, closePc,
                   pc, inbox, sendRes, sendDead>>
    /\ UNCHANGED nonPipeVars

(* line 82: time.Sleep(brainRestartBackoff) returns when the whole backoff *)
(* has elapsed                                                             *)
SupWake ==
    /\ supPc = "sleep"
    /\ sleepLeft' = 0
    /\ supPc' = "recheck"
    /\ UNCHANGED <<cmd, stdinPipe, stdin, closed, shutdown, cmdLine, done, mu,
                   wbuf, werr, startRes, startArg, startOutcome, supCmd, supNew,
                   live, argv, eof, childIn, nspawn, closePc,
                   pc, inbox, sendRes, sendDead>>
    /\ UNCHANGED nonPipeVars

(* lines 84-89: shutdown check after the sleep *)
SupRecheck ==
    /\ supPc = "recheck" /\ mu = "free"
    /\ IF shutdown
       THEN supPc' = "done" /\ done' = TRUE
       ELSE supPc' = "spawn" /\ UNCHANGED done
    /\ UNCHANGED <<cmd, stdinPipe, stdin, closed, shutdown, cmdLine, mu,
                   wbuf, werr, startRes, startArg, startOutcome, supCmd, supNew, sleepLeft,
                   live, argv, eof, childIn, nspawn, closePc,
                   pc, inbox, sendRes, sendDead>>
    /\ UNCHANGED nonPipeVars

(* SupSpawn that returns from the loop when the re-spawn fails *)
SupSpawnFatal(outcome) ==
    /\ supPc = "spawn"
    /\ IF Len(splitCmd(cmdLine)) = 0
       THEN /\ supPc' = "done" /\ done' = TRUE
            /\ UNCHANGED <<cmd, stdinPipe, stdin, wbuf, werr, supNew,
                           live, argv, nspawn>>
       ELSE IF outcome = "ok"
       THEN /\ nspawn < MaxSpawns
            /\ nspawn' = nspawn + 1
            /\ live' = live \cup {nspawn + 1}
            /\ argv' = [argv EXCEPT ![nspawn + 1] = splitCmd(cmdLine)]
            /\ supNew' = nspawn + 1
            /\ supPc' = "install"
            /\ UNCHANGED <<cmd, stdinPipe, stdin, wbuf, werr, done>>
       ELSE /\ mu = "free"
            /\ cmd' = Nil /\ stdinPipe' = Nil /\ stdin' = Nil
            /\ wbuf' = <<>> /\ werr' = FALSE
            /\ supPc' = "done" /\ done' = TRUE
            /\ UNCHANGED <<supNew, live, argv, nspawn>>
    /\ UNCHANGED <<closed, shutdown, cmdLine, mu, startRes, startArg, startOutcome, supCmd, sleepLeft,
                   eof, childIn, closePc,
                   pc, inbox, sendRes, sendDead>>
    /\ UNCHANGED nonPipeVars

(* lines 91-115: exec.Command, StdinPipe, Start; on failure the handle's   *)
(* references are cleared under the lock and the loop continues. Once      *)
(* MaxSpawns processes were started, every further spawn fails.            *)
SupSpawn(outcome) ==
    /\ supPc = "spawn"
    /\ IF Len(splitCmd(cmdLine)) = 0
       THEN /\ supPc' = "done" /\ done' = TRUE
            /\ UNCHANGED <<cmd, stdinPipe, stdin, wbuf, werr, supNew,
                           live, argv, nspawn>>
       ELSE IF outcome = "ok"
       THEN /\ nspawn < MaxSpawns
            /\ nspawn' = nspawn + 1
            /\ live' = live \cup {nspawn + 1}
            /\ argv' = [argv EXCEPT ![nspawn + 1] = splitCmd(cmdLine)]
            /\ supNew' = nspawn + 1
            /\ supPc' = "install"
            /\ UNCHANGED <<cmd, stdinPipe, stdin, wbuf, werr, done>>
       ELSE /\ mu = "free"
            /\ cmd' = Nil /\ stdinPipe' = Nil /\ stdin' = Nil
            /\ wbuf' = <<>> /\ werr' = FALSE
            /\ supPc' = "load"
            /\ UNCHANGED <<supNew, live, argv, nspawn, done>>
    /\ UNCHANGED <<closed, shutdown, cmdLine, mu, startRes, startArg, startOutcome, supCmd, sleepLeft,
                   eof, childIn, closePc,
                   pc, inbox, sendRes, sendDead>>
    /\ UNCHANGED nonPipeVars

(* an install that leaves the old writer in place *)
SupInstallCmdOnly ==
    /\ supPc = "install" /\ mu = "free"
    /\ cmd' = supNew /\ stdinPipe' = supNew
    /\ closed' = FALSE
    /\ supNew' = Nil
    /\ supPc' = "load"
    /\ UNCHANGED <<stdin, wbuf, werr, shutdown, cmdLine, done, mu, startRes, startArg,
                   startOutcome, supCmd, sleepLeft,
                   live, argv, eof, childIn, nspawn, closePc,
                   pc, inbox, sendRes, sendDead>>
    /\ UNCHANGED nonPipeVars

(* lines 116-122: install the new process and a fresh bufio.Writer *)
SupInstall ==
    /\ supPc = "install" /\ mu = "free"
    /\ cmd' = supNew /\ stdinPipe' = supNew /\ stdin' = supNew
    /\ wbuf' = <<>> /\ werr' = FALSE
    /\ closed' = FALSE
    /\ supNew' = Nil
    /\ supPc' = "load"
    /\ UNCHANGED <<shutdown, cmdLine, done, mu, startRes, startArg, startOutcome, supCmd, sleepLeft,
                   live, argv, eof, childIn, nspawn, closePc,
                   pc, inbox, sendRes, sendDead>>
    /\ UNCHANGED nonPipeVars

Supervisor ==
    \/ SupLoad \/ SupWait \/ SupCheck \/ SupWake \/ SupRecheck
    \/ (\E o \in SpawnOutcomes : SupSpawn(o))
    \/ SupInstall

(* ---------------------------------------------------------------------- *)
(* The child process (external): it may exit at any time, it exits when    *)
(* its input reaches end of file, and it reads its input                   *)
(* ---------------------------------------------------------------------- *)
ChildGone(p) ==
    /\ live' = live \ {p}
    /\ childIn' = [childIn EXCEPT ![p] = <<>>]
    /\ UNCHANGED <<cmd, stdinPipe, stdin, closed, shutdown, cmdLine, done, mu,
                   wbuf, werr, startRes, startArg, startOutcome,
                   supPc, supCmd, supNew, sleepLeft,
                   argv, eof, nspawn, closePc,
                   pc, inbox, sendRes, sendDead>>
    /\ UNCHANGED nonPipeVars

(* the process exits although its input is open (crash, kill) *)
ChildCrash(p) == p \in live /\ p \notin eof /\ ChildGone(p)

(* the process exits because its input was closed *)
ChildEOF(p) == p \in live /\ p \in eof /\ ChildGone(p)

(* the process reads one line of its input *)
ChildRead(p) ==
    /\ p \in live /\ childIn[p] # <<>>
    /\ childIn' = [childIn EXCEPT ![p] = AfterFirstLine(childIn[p])]
    /\ UNCHANGED <<cmd, stdinPipe, stdin, closed, shutdown, cmdLine, done, mu,
                   wbuf, werr, startRes, startArg, startOutcome,
                   supPc, supCmd, supNew, sleepLeft,
                   live, argv, eof, nspawn, closePc,
                   pc, inbox, sendRes, sendDead>>
    /\ UNCHANGED nonPipeVars

(* ---------------------------------------------------------------------- *)
(* Pipe.Close                                                              *)
(* ---------------------------------------------------------------------- *)
(* lines 153-155: Close on a nil *Pipe *)
CloseNil(c) ==
    /\ closePc[c] = "idle" /\ startRes \in {"nil", "err"}
    /\ closePc' = [closePc EXCEPT ![c] = "ret"]
    /\ UNCHANGED <<cmd, stdinPipe, stdin, closed, shutdown, cmdLine, done, mu,
                   wbuf, werr, startRes, startArg, startOutcome, supPc, supCmd, supNew, sleepLeft,
                   live, argv, eof, childIn, nspawn,
                   pc, inbox, sendRes, sendDead>>
    /\ UNCHANGED nonPipeVars

(* lines 156-167: the locked section of Close. Flush finds the buffer      *)
(* empty or the writer in error, so it writes nothing.                     *)
CloseCall(c) ==
    /\ closePc[c] = "idle" /\ startRes = "handle" /\ mu = "free"
    /\ IF shutdown
       THEN /\ closePc' = [closePc EXCEPT ![c] = "ret"]
            /\ UNCHANGED <<shutdown, closed, eof>>
       ELSE /\ shutdown' = TRUE
            /\ IF ~closed /\ stdinPipe # Nil
               THEN closed' = TRUE /\ eof' = eof \cup {stdinPipe}
               ELSE UNCHANGED <<closed, eof>>
            /\ closePc' = [closePc EXCEPT ![c] = "wait"]
    /\ UNCHANGED <<cmd, stdinPipe, stdin, cmdLine, done, mu,
                   wbuf, werr, startRes, startArg, startOutcome, supPc, supCmd, supNew, sleepLeft,
                   live, argv, childIn, nspawn,
                   pc, inbox, sendRes, sendDead>>
    /\ UNCHANGED nonPipeVars

(* line 168: <-p.done *)
CloseWait(c) ==
    /\ closePc[c] = "wait" /\ done
    /\ closePc' = [closePc EXCEPT ![c] = "ret"]
    /\ UNCHANGED <<cmd, stdinPipe, stdin, closed, shutdown, cmdLine, done, mu,
                   wbuf, werr, startRes, startArg, startOutcome, supPc, supCmd, supNew, sleepLeft,
                   live, argv, eof, childIn, nspawn,
                   pc, inbox, sendRes, sendDead>>
    /\ UNCHANGED nonPipeVars

(* ---------------------------------------------------------------------- *)
(* The callbacks of runStreaming (OnTrade, OnQuote, OnNews, the timers):   *)
(* each hands its event to Pipe.Send and then to the publisher             *)
(* ---------------------------------------------------------------------- *)
(* an event arrives on the task's connection *)
Arrive(s) ==
    /\ startRes # "none"
    /\ ~inbox[s]
    /\ inbox' = [inbox EXCEPT ![s] = TRUE]
    /\ UNCHANGED <<cmd, stdinPipe, stdin, closed, shutdown, cmdLine, done, mu,
                   wbuf, werr, startRes, startArg, startOutcome,
                   supPc, supCmd, supNew, sleepLeft,
                   live, argv, eof, childIn, nspawn, closePc,
                   pc, sendRes, sendDead>>
    /\ UNCHANGED nonPipeVars

(* main.go: `if brainPipe != nil` is false, Send is not called *)
SendSkip(s) ==
    /\ pc[s] = "idle" /\ inbox[s] /\ startRes \in {"nil", "err"}
    /\ inbox' = [inbox EXCEPT ![s] = FALSE]
    /\ pc' = [pc EXCEPT ![s] = "publish"]
    /\ UNCHANGED <<cmd, stdinPipe, stdin, closed, shutdown, cmdLine, done, mu,
                   wbuf, werr, startRes, startArg, startOutcome,
                   supPc, supCmd, supNew, sleepLeft,
                   live, argv, eof, childIn, nspawn, closePc,
                   sendRes, sendDead>>
    /\ UNCHANGED nonPipeVars

(* Send that does not take the lock *)
SendBeginNoLock(s) ==
    /\ pc[s] = "idle" /\ inbox[s] /\ startRes = "handle"
    /\ inbox' = [inbox EXCEPT ![s] = FALSE]
    /\ sendDead' = [sendDead EXCEPT ![s] = (cmd \notin live)]
    /\ IF closed \/ stdin = Nil
       THEN /\ sendRes' = [sendRes EXCEPT ![s] = "noop"]
            /\ pc' = [pc EXCEPT ![s] = "publish"]
            /\ UNCHANGED mu
       ELSE /\ pc' = [pc EXCEPT ![s] = "write"]
            /\ UNCHANGED <<mu, sendRes>>
    /\ UNCHANGED <<cmd, stdinPipe, stdin, closed, shutdown, cmdLine, done,
                   wbuf, werr, startRes, startArg, startOutcome,
                   supPc, supCmd, supNew, sleepLeft,
                   live, argv, eof, childIn, nspawn, closePc>>
    /\ UNCHANGED nonPipeVars

(* Send lines 131-135: take the lock; a handle that is down makes Send a   *)
(* no-op. sendDead records whether the handle's process was dead then.     *)
SendBegin(s) ==
    /\ pc[s] = "idle" /\ inbox[s] /\ startRes = "handle"
    /\ mu = "free"
    /\ inbox' = [inbox EXCEPT ![s] = FALSE]
    /\ sendDead' = [sendDead EXCEPT ![s] = (cmd \notin live)]
    /\ IF closed \/ stdin = Nil
       THEN /\ sendRes' = [sendRes EXCEPT ![s] = "noop"]
            /\ pc' = [pc EXCEPT ![s] = "publish"]
            /\ UNCHANGED mu
       ELSE /\ mu' = s
            /\ pc' = [pc EXCEPT ![s] = "write"]
            /\ UNCHANGED sendRes
    /\ UNCHANGED <<cmd, stdinPipe, stdin, closed, shutdown, cmdLine, done,
                   wbuf, werr, startRes, startArg, startOutcome,
                   supPc, supCmd, supNew, sleepLeft,
                   live, argv, eof, childIn, nspawn, closePc>>
    /\ UNCHANGED nonPipeVars

(* Send returns err: the deferred Unlock runs *)
SendFail(s) ==
    /\ sendRes' = [sendRes EXCEPT ![s] = "err"]
    /\ pc' = [pc EXCEPT ![s] = "publish"]
    /\ mu' = "free"

(* Send line 142: p.stdin.Write(line) into the bufio buffer *)
SendWrite(s) ==
    /\ pc[s] = "write"
    /\ IF werr
       THEN SendFail(s) /\ UNCHANGED wbuf
       ELSE /\ wbuf' = wbuf \o Line(s)
            /\ pc' = [pc EXCEPT ![s] = "nl"]
            /\ UNCHANGED <<mu, sendRes>>
    /\ UNCHANGED <<cmd, stdinPipe, stdin, closed, shutdown, cmdLine, done,
                   werr, startRes, startArg, startOutcome,
                   supPc, supCmd, supNew, sleepLeft,
                   live, argv, eof, childIn, nspawn, closePc,
                   inbox, sendDead>>
    /\ UNCHANGED nonPipeVars

(* Send line 145: p.stdin.WriteByte('\n') *)
SendNewline(s) ==
    /\ pc[s] = "nl"
    /\ IF werr
       THEN SendFail(s) /\ UNCHANGED wbuf
       ELSE /\ wbuf' = Append(wbuf, NL)
            /\ pc' = [pc EXCEPT ![s] = "flush"]
            /\ UNCHANGED <<mu, sendRes>>
    /\ UNCHANGED <<cmd, stdinPipe, stdin, closed, shutdown, cmdLine, done,
                   werr, startRes, startArg, startOutcome,
                   supPc, supCmd, supNew, sleepLeft,
                   live, argv, eof, childIn, nspawn, closePc,
                   inbox, sendDead>>
    /\ UNCHANGED nonPipeVars

(* Send line 148: p.stdin.Flush() writes the buffer to the pipe. The write *)
(* fails when the reader is gone or the pipe was closed, and blocks while  *)
(* the pipe is full (the child is not reading).                            *)
SendFlush(s) ==
    /\ pc[s] = "flush"
    /\ IF werr \/ stdin \notin live \/ stdin \in eof
       THEN /\ SendFail(s)
            /\ werr' = TRUE
            /\ UNCHANGED <<wbuf, childIn>>
       ELSE /\ Len(childIn[stdin]) < PipeCap * LineLen
            /\ childIn' = [childIn EXCEPT ![stdin] = childIn[stdin] \o wbuf]
            /\ wbuf' = <<>>
            /\ sendRes' = [sendRes EXCEPT ![s] = "ok"]
            /\ pc' = [pc EXCEPT ![s] = "publish"]
            /\ mu' = "free"
            /\ UNCHANGED werr
    /\ UNCHANGED <<cmd, stdinPipe, stdin, closed, shutdown, cmdLine, done,
                   startRes, startArg, startOutcome,
                   supPc, supCmd, supNew, sleepLeft,
                   live, argv, eof, nspawn, closePc,
                   inbox, sendDead>>
    /\ UNCHANGED nonPipeVars

(* main.go: redis.LogErr(pub.PublishJSON(...)) returns (with or without an *)
(* error, which is only logged) and the callback returns                   *)
PublishReturn(s) ==
    /\ pc[s] = "publish"
    /\ pc' = [pc EXCEPT ![s] = "idle"]
    /\ sendRes' = [sendRes EXCEPT ![s] = "none"]
    /\ sendDead' = [sendDead EXCEPT ![s] = FALSE]
    /\ UNCHANGED <<cmd, stdinPipe, stdin, closed, shutdown, cmdLine, done, mu,
                   wbuf, werr, startRes, startArg, startOutcome,
                   supPc, supCmd, supNew, sleepLeft,
                   live, argv, eof, childIn, nspawn, closePc,
                   inbox>>
    /\ UNCHANGED nonPipeVars

Sender(s) ==
    \/ Arrive(s) \/ SendSkip(s) \/ SendBegin(s)
    \/ SendWrite(s) \/ SendNewline(s) \/ SendFlush(s)
    \/ PublishReturn(s)

(* ---------------------------------------------------------------------- *)
(* Part 2: one callback of runStreaming, by kind of publisher              *)
(* ---------------------------------------------------------------------- *)
(* Publisher.PublishJSON / NoopPublisher.PublishJSON: the real publisher   *)
(* writes "ts" into the caller's payload map and calls XAdd once           *)
PublishJSON(k, payload) ==
    IF k = "noop"
    THEN [err |-> FALSE, payload |-> payload, calls |-> 0]
    ELSE [err |-> (k = "fail"), payload |-> [payload EXCEPT !.ts = TRUE],
          calls |-> 1]

(* Publisher.Publish / NoopPublisher.Publish: the event is passed by value *)
Publish(k, payload) ==
    IF k = "noop"
    THEN [err |-> FALSE, payload |-> payload, calls |-> 0]
    ELSE [err |-> (k = "fail"), payload |-> payload, calls |-> 1]

(* LogErr that ends the task on an error *)
LogErrFatal(err) ==
    [logged |-> IF err THEN 1 ELSE 0, alive |-> ~err]

(* redis.LogErr: an error is logged, nothing else *)
LogErr(err) ==
    [logged |-> IF err THEN 1 ELSE 0, alive |-> TRUE]

(* OnTrade, OnQuote, OnNews, updateVolatility, pushPositionsAndOrders:     *)
(* build the payload, Send it (a line is written when the handle is up),   *)
(* then publish it and log the error                                       *)
Callback(st, k, typ, up) ==
    LET payload == [event |-> typ, ts |-> FALSE]
        sent == IF up
                THEN Append(st.pipe, [type |-> typ, payload |-> payload])
                ELSE st.pipe
        r == IF typ \in {"positions", "orders"}
             THEN Publish(k, payload)
             ELSE PublishJSON(k, payload)
        l == LogErr(r.err)
    IN  [pipe |-> sent, calls |-> st.calls + r.calls,
         logged |-> st.logged + l.logged, alive |-> l.alive]

(* one event reaches its callback; up tells whether the pipe handle is up *)
FanOut(typ, up) ==
    /\ fanCount < MaxFanEvents
    /\ fanCount' = fanCount + 1
    /\ fan' = [k \in PubKinds |->
                 IF fan[k].alive THEN Callback(fan[k], k, typ, up) ELSE fan[k]]
    /\ UNCHANGED nonFanVars

PubNext == \E typ \in EventTypes, up \in BOOLEAN : FanOut(typ, up)

PubSpec == Init /\ [][PubNext]_vars

Next ==
    \/ \E s \in Senders : Sender(s)
    \/ \E line \in CmdLines, o \in SpawnOutcomes : StartPipe(line, o)
    \/ Supervisor
    \/ \E p \in Pids : ChildCrash(p) \/ ChildEOF(p) \/ ChildRead(p)
    \/ \E c \in Closers : CloseNil(c) \/ CloseCall(c) \/ CloseWait(c)

Spec == Init /\ [][Next]_vars

(* ---------------------------------------------------------------------- *)
(* Fairness. A goroutine whose next step stays possible takes it. The     *)
(* supervisor competes with Send for the lock where the handle is up       *)
(* (lines 65 and 71); sync.Mutex hands the lock to a waiter, hence strong  *)
(* fairness there. A child whose input was closed exits. Nothing forces an *)
(* event to arrive, a child to crash or to read its input, a publish to    *)
(* return, or Close to be called.                                          *)
(* ---------------------------------------------------------------------- *)
Fairness ==
    /\ SF_vars(SupLoad) /\ SF_vars(SupCheck)
    /\ WF_vars(SupWait) /\ WF_vars(SupWake) /\ WF_vars(SupRecheck)
    /\ WF_vars(\E o \in SpawnOutcomes : SupSpawn(o))
    /\ WF_vars(SupInstall)
    /\ \A p \in Pids : WF_vars(ChildEOF(p))
    /\ \A c \in Closers : WF_vars(CloseWait(c))
    /\ \A s \in Senders :
          /\ WF_vars(SendBegin(s)) /\ WF_vars(SendSkip(s))
          /\ WF_vars(SendWrite(s)) /\ WF_vars(SendNewline(s))
          /\ WF_vars(SendFlush(s))

FairSpec == Spec /\ Fairness

(* Callers of Send compete with each other for the lock (line 131); with   *)
(* the lock handed to waiters, no caller starves.                          *)
SendFairness == \A s \in Senders : SF_vars(SendBegin(s))

FairSendSpec == FairSpec /\ SendFairness


(* ====================================================================== *)
(* Part 3: brain.State                                                     *)
(* ====================================================================== *)
(* for len(h) > 0 && h[0].t.Before(cut) { h = h[1:] } *)
RECURSIVE TrimFront(_, _)
TrimFront(h, cut) ==
    IF Len(h) > 0 /\ h[1].t < cut THEN TrimFront(Tail(h), cut) ELSE h

NumTrades == Len(trades["A"]) + Len(trades["B"])

(* RecordTrade(symbol, price, size, t); wall is what time.Now() returns,   *)
(* read only when t is the zero time                                       *)
RecordTrade(symbol, price, size, t, wall) ==
    LET now == IF t = ZeroTime THEN wall ELSE t
        cut == now - lookback
    IN  /\ NumTrades < MaxTrades
        /\ priceHistory' = [priceHistory EXCEPT ![symbol] =
               TrimFront(Append(@, [t |-> now, p |-> price]), cut)]
        /\ volumeHistory' = [volumeHistory EXCEPT ![symbol] =
               IF size > 0
               THEN TrimFront(Append(@, [t |-> now, v |-> size]), cut)
               ELSE @]
        /\ trades' = [trades EXCEPT ![symbol] =
               Append(@, [t |-> now, p |-> price, v |-> size])]
        /\ UNCHANGED nonStateVars

(* sum of the sizes of the points of h newer than cut *)
RECURSIVE SumAfter(_, _)
SumAfter(h, cut) ==
    IF h = <<>> THEN 0
    ELSE (IF Head(h).t > cut THEN Head(h).v ELSE 0) + SumAfter(Tail(h), cut)

(* volumeSince that also counts the point exactly d old (After or Equal) *)
volumeSinceInclusive(symbol, d, now) ==
    SumAfter(volumeHistory[symbol], now - d - 1)

(* volumeSince(symbol, d); now is what time.Now() returns *)
volumeSince(symbol, d, now) ==
    SumAfter(volumeHistory[symbol], now - d)

(* for i := len(ph) - 1; i >= 0; i-- : the price of the first point from   *)
(* the end that is at or before cut, 0 when there is none                  *)
RECURSIVE ScanBack(_, _, _)
ScanBack(ph, i, cut) ==
    IF i = 0 THEN 0
    ELSE IF ph[i].t <= cut THEN ph[i].p
    ELSE ScanBack(ph, i - 1, cut)

(* a float64 result as a fraction <<numerator, denominator>> *)
Ratio(n, d) == IF n = 0 THEN <<0, 1>> ELSE <<n, d>>

(* returnSince that misses the point exactly d old (Before without Equal) *)
returnSinceBeforeOnly(symbol, current, d, now) ==
    LET ph == priceHistory[symbol]
        past == ScanBack(ph, Len(ph), now - d - 1)
    IN  IF Len(ph) = 0 \/ current <= 0 THEN Ratio(0, 1)
        ELSE IF past <= 0 THEN Ratio(0, 1)
        ELSE Ratio(current - past, past)

(* returnSince(symbol, current, d); now is what time.Now() returns *)
returnSince(symbol, current, d, now) ==
    LET ph == priceHistory[symbol]
        past == ScanBack(ph, Len(ph), now - d)
    IN  IF Len(ph) = 0 \/ current <= 0 THEN Ratio(0, 1)
        ELSE IF past <= 0 THEN Ratio(0, 1)
        ELSE Ratio(current - past, past)

(* the instants time.Now() can return in a call with time stamp t *)
Walls(t) == IF t = ZeroTime THEN Times ELSE {t}

StateNext ==
    \E sym \in Symbols, in \in TradeInputs, t \in Times \cup {ZeroTime} :
        \E wall \in Walls(t) : RecordTrade(sym, in.p, in.v, t, wall)

StateSpec == Init /\ [][StateNext]_vars


(* ---------------------------------------------------------------------- *)
(* Session                                                                 *)
(* ---------------------------------------------------------------------- *)
(* init(): time.LoadLocation("America/New_York"), and the fixed zone "ET"  *)
(* of -5 hours when the time-zone database cannot be loaded                *)
LoadLocation(ok) ==
    /\ eastern = "unset"
    /\ eastern' = IF ok THEN "America/New_York" ELSE "ET"
    /\ UNCHANGED <<clock, session>>
    /\ UNCHANGED nonSessVars

(* minutes west of UTC of a location at an instant: New York is 5 hours    *)
(* west on standard time and 4 hours on daylight saving time, the fixed    *)
(* zone always 5 hours                                                     *)
OffsetWest(loc, now) ==
    IF loc = "America/New_York" /\ now.dst THEN 4 * 60 ELSE 5 * 60

(* now.In(loc): hour and minute of the instant on the clocks of loc *)
In(now, loc) ==
    LET local == (now.min + MinutesPerDay - OffsetWest(loc, now)) % MinutesPerDay
    IN  [Hour |-> local \div 60, Minute |-> local % 60]

(* Session with 16:00 itself still in the regular session *)
SessionLateClose(now, loc) ==
    LET et == In(now, loc)
        minutes == et.Hour * 60 + et.Minute
    IN  IF minutes < 570 THEN "pre_open"
        ELSE IF minutes > 960 THEN "post_close"
        ELSE "regular"

(* Session(now), with the location the package variable eastern holds *)
Session(now, loc) ==
    LET et == In(now, loc)
        minutes == et.Hour * 60 + et.Minute
    IN  IF minutes < 570 THEN "pre_open"
        ELSE IF minutes >= 960 THEN "post_close"
        ELSE "regular"

(* brain.Session(time.Now()) in a callback *)
SessionCall ==
    /\ eastern # "unset"
    /\ session' = Session(clock, eastern)
    /\ UNCHANGED <<eastern, clock>>
    /\ UNCHANGED nonSessVars

(* a minute passes *)
ClockTick ==
    /\ clock' = [clock EXCEPT
                   !.min = (@ + 1) % MinutesPerDay,
                   !.wd = IF clock.min + 1 = MinutesPerDay
                          THEN (@ + 1) % DaysPerWeek ELSE @]
    /\ session' = "none"
    /\ UNCHANGED eastern
    /\ UNCHANGED nonSessVars

(* New York moves its clocks to or from daylight saving time *)
ClockChange ==
    /\ clock' = [clock EXCEPT !.dst = ~@]
    /\ session' = "none"
    /\ UNCHANGED eastern
    /\ UNCHANGED nonSessVars

SessionNext ==
    \/ \E ok \in BOOLEAN : LoadLocation(ok)
    \/ SessionCall
    \/ ClockTick
    \/ ClockChange

SessionSpec == Init /\ [][SessionNext]_vars


(* ---------------------------------------------------------------------- *)
(* brain.State under concurrent callers: RecordTrade statement by          *)
(* statement under s.mu.Lock(), volumeSince and returnSince under          *)
(* s.mu.RLock()                                                            *)
(* ---------------------------------------------------------------------- *)
(* s.mu.Lock() that does not wait for the readers to leave *)
WLockIgnoringReaders(w, symbol, price, size, t, wall) ==
    /\ wpc[w] = "idle" /\ NumTrades < MaxConcTrades
    /\ smuW = ""
    /\ smuW' = w
    /\ wargs' = [wargs EXCEPT ![w] =
           [sym |-> symbol, p |-> price, v |-> size,
            now |-> IF t = ZeroTime THEN wall ELSE t]]
    /\ trades' = [trades EXCEPT ![symbol] =
           Append(@, [t |-> IF t = ZeroTime THEN wall ELSE t,
                      p |-> price, v |-> size])]
    /\ wpc' = [wpc EXCEPT ![w] = "appendP"]
    /\ UNCHANGED <<priceHistory, volumeHistory, smuR, rpc, seen>>
    /\ UNCHANGED nonConcVars

(* s.mu.Lock(); now := t, or time.Now() for the zero time. The order in    *)
(* which callers get the lock is the order recorded in trades.             *)
WLock(w, symbol, price, size, t, wall) ==
    /\ wpc[w] = "idle" /\ NumTrades < MaxConcTrades
    /\ smuW = "" /\ smuR = {}
    /\ smuW' = w
    /\ wargs' = [wargs EXCEPT ![w] =
           [sym |-> symbol, p |-> price, v |-> size,
            now |-> IF t = ZeroTime THEN wall ELSE t]]
    /\ trades' = [trades EXCEPT ![symbol] =
           Append(@, [t |-> IF t = ZeroTime THEN wall ELSE t,
                      p |-> price, v |-> size])]
    /\ wpc' = [wpc EXCEPT ![w] = "appendP"]
    /\ UNCHANGED <<priceHistory, volumeHistory, smuR, rpc, seen>>
    /\ UNCHANGED nonConcVars

(* s.priceHistory[symbol] = append(s.priceHistory[symbol], ...) *)
WAppendPrice(w) ==
    /\ wpc[w] = "appendP"
    /\ priceHistory' = [priceHistory EXCEPT ![wargs[w].sym] =
           Append(@, [t |-> wargs[w].now, p |-> wargs[w].p])]
    /\ wpc' = [wpc EXCEPT ![w] = "trimP"]
    /\ UNCHANGED <<volumeHistory, trades, smuW, smuR, wargs, rpc, seen>>
    /\ UNCHANGED nonConcVars

(* the trim loop on the local ph, then s.priceHistory[symbol] = ph *)
WTrimPrice(w) ==
    /\ wpc[w] = "trimP"
    /\ priceHistory' = [priceHistory EXCEPT ![wargs[w].sym] =
           TrimFront(@, wargs[w].now - lookback)]
    /\ wpc' = [wpc EXCEPT ![w] = IF wargs[w].v > 0 THEN "appendV" ELSE "unlock"]
    /\ UNCHANGED <<volumeHistory, trades, smuW, smuR, wargs, rpc, seen>>
    /\ UNCHANGED nonConcVars

(* if size > 0: s.volumeHistory[symbol] = append(...) *)
WAppendVolume(w) ==
    /\ wpc[w] = "appendV"
    /\ volumeHistory' = [volumeHistory EXCEPT ![wargs[w].sym] =
           Append(@, [t |-> wargs[w].now, v |-> wargs[w].v])]
    /\ wpc' = [wpc EXCEPT ![w] = "trimV"]
    /\ UNCHANGED <<priceHistory, trades, smuW, smuR, wargs, rpc, seen>>
    /\ UNCHANGED nonConcVars

(* the trim loop on the local vh, then s.volumeHistory[symbol] = vh *)
WTrimVolume(w) ==
    /\ wpc[w] = "trimV"
    /\ volumeHistory' = [volumeHistory EXCEPT ![wargs[w].sym] =
           TrimFront(@, wargs[w].now - lookback)]
    /\ wpc' = [wpc EXCEPT ![w] = "unlock"]
    /\ UNCHANGED <<priceHistory, trades, smuW, smuR, wargs, rpc, seen>>
    /\ UNCHANGED nonConcVars

(* defer s.mu.Unlock() *)
WUnlock(w) ==
    /\ wpc[w] = "unlock"
    /\ smuW' = ""
    /\ wpc' = [wpc EXCEPT ![w] = "idle"]
    /\ wargs' = [wargs EXCEPT ![w] = NoArgs]
    /\ UNCHANGED <<priceHistory, volumeHistory, trades, smuR, rpc, seen>>
    /\ UNCHANGED nonConcVars

(* s.mu.RLock() of volumeSince or returnSince *)
RLock(r) ==
    /\ rpc[r] = "idle"
    /\ smuW = ""
    /\ smuR' = smuR \cup {r}
    /\ rpc' = [rpc EXCEPT ![r] = "locked"]
    /\ UNCHANGED <<priceHistory, volumeHistory, trades, smuW, wpc, wargs, seen>>
    /\ UNCHANGED nonConcVars

(* volumeSince ranges over s.volumeHistory[symbol] ("volume"), returnSince *)
(* takes ph := s.priceHistory[symbol] ("price")                            *)
RRead(r, kind, symbol) ==
    /\ rpc[r] = "locked"
    /\ seen' = [seen EXCEPT ![r] =
           [kind |-> kind, sym |-> symbol,
            h |-> IF kind = "price" THEN priceHistory[symbol]
                  ELSE volumeHistory[symbol]]]
    /\ rpc' = [rpc EXCEPT ![r] = "read"]
    /\ UNCHANGED <<priceHistory, volumeHistory, trades, smuW, smuR, wpc, wargs>>
    /\ UNCHANGED nonConcVars

(* defer s.mu.RUnlock(), and the call returns *)
RUnlock(r) ==
    /\ rpc[r] = "read"
    /\ smuR' = smuR \ {r}
    /\ rpc' = [rpc EXCEPT ![r] = "idle"]
    /\ seen' = [seen EXCEPT ![r] = NoRead]
    /\ UNCHANGED <<priceHistory, volumeHistory, trades, smuW, wpc, wargs>>
    /\ UNCHANGED nonConcVars

ConcNext ==
    \/ \E w \in Writers, sym \in Symbols, in \in TradeInputs,
          t \in Times \cup {ZeroTime} :
          \E wall \in Walls(t) : WLock(w, sym, in.p, in.v, t, wall)
    \/ \E w \in Writers :
          \/ WAppendPrice(w) \/ WTrimPrice(w)
          \/ WAppendVolume(w) \/ WTrimVolume(w) \/ WUnlock(w)
    \/ \E r \in Readers :
          \/ RLock(r)
          \/ \E kind \in {"price", "volume"}, sym \in Symbols : RRead(r, kind, sym)
          \/ RUnlock(r)

ConcSpec == Init /\ [][ConcNext]_vars


(* ---------------------------------------------------------------------- *)
(* State.SetVolatility, State.SetVolatilityMap, State.GetVolatility        *)
(* ---------------------------------------------------------------------- *)
(* s.volatility[symbol] = vol *)
SetVolatility(symbol, vol) ==
    /\ Len(volCalls) < MaxVolCalls
    /\ stateVolatility' = [stateVolatility EXCEPT ![symbol] = vol]
    /\ volCalls' = Append(volCalls, [k \in {symbol} |-> vol])
    /\ UNCHANGED nonSvolVars

(* SetVolatilityMap that replaces the map by its argument *)
SetVolatilityMapReplacing(vol) ==
    /\ Len(volCalls) < MaxVolCalls
    /\ stateVolatility' =
           [k \in Symbols |-> IF k \in DOMAIN vol THEN vol[k] ELSE Unset]
    /\ volCalls' = Append(volCalls, vol)
    /\ UNCHANGED nonSvolVars

(* for k, v := range vol { s.volatility[k] = v } *)
SetVolatilityMap(vol) ==
    /\ Len(volCalls) < MaxVolCalls
    /\ stateVolatility' =
           [k \in Symbols |-> IF k \in DOMAIN vol THEN vol[k] ELSE stateVolatility[k]]
    /\ volCalls' = Append(volCalls, vol)
    /\ UNCHANGED nonSvolVars

(* return s.volatility[symbol]: 0 for an absent key *)
GetVolatility(symbol) ==
    IF stateVolatility[symbol] = Unset THEN <<0, 1>> ELSE stateVolatility[symbol]

SvolNext ==
    \/ \E sym \in Symbols, v \in VolValues : SetVolatility(sym, v)
    \/ \E m \in VolMaps : SetVolatilityMap(m)

SvolSpec == Init /\ [][SvolNext]_vars

(* ---------------------------------------------------------------------- *)
(* alpaca.AnnualizedVolatility and run()'s updateVolatility                *)
(* ---------------------------------------------------------------------- *)
(* the loop over i = 1 .. len(bars)-1 (here 2 .. Len(bars)): a bar after a *)
(* close <= 0 is skipped; math.Log of a zero close over a positive one is  *)
(* -Inf, which the sums keep (inf)                                         *)
RECURSIVE LogSums(_, _, _)
LogSums(bars, i, acc) ==
    IF i > Len(bars) THEN acc
    ELSE IF bars[i - 1] <= ZeroClose THEN LogSums(bars, i + 1, acc)
    ELSE IF bars[i] <= ZeroClose
         THEN LogSums(bars, i + 1, [acc EXCEPT !.inf = TRUE])
    ELSE LET logRet == bars[i] - bars[i - 1]
         IN  LogSums(bars, i + 1,
                     [sum |-> acc.sum + logRet,
                      sumSq |-> acc.sumSq + logRet * logRet,
                      inf |-> acc.inf])

TradingDays == 252

(* math.Sqrt keeps NaN, zero and the sign of a positive argument: the root *)
(* is carried as the fraction it is the root of                            *)
Sqrt(x) ==
    x

(* variance = (sumSq - sum*sum/n) / (n-1), as the fraction                 *)
(* (n*sumSq - sum*sum) / (n*(n-1)); with an infinite sum it is Inf - Inf,  *)
(* NaN, which is not <= 0 and whose root is NaN                            *)
AnnualizedVolatility(bars) ==
    IF Len(bars) < 2 THEN NaN
    ELSE LET n == Len(bars) - 1
             s == LogSums(bars, 2, [sum |-> 0, sumSq |-> 0, inf |-> FALSE])
         IN  IF n < 2 THEN NaN
             ELSE IF s.inf THEN NaN
             ELSE IF n * s.sumSq - s.sum * s.sum <= 0 THEN <<0, 1>>
             ELSE Sqrt(<<(n * s.sumSq - s.sum * s.sum) * TradingDays, n * (n - 1)>>)

(* v >= 0 in the place of v > 0 *)
PositiveOrZero(v) ==
    v = Unset \/ (v # NaN /\ v[1] >= 0)

(* v > 0 for a float64 read from a map: false for an absent key (0), for 0 *)
(* and for NaN                                                             *)
Positive(v) ==
    v # Unset /\ v # NaN /\ v[1] > 0

(* var brainPipe *brain.Pipe, set once from cfg.BrainCmd and StartPipe *)
Configure(started) ==
    /\ brainPipe = "unset"
    /\ brainPipe' = IF started THEN "handle" ELSE "nil"
    /\ UNCHANGED <<volatility, refresh>>
    /\ UNCHANGED <<nonRefVars, svolVars>>

(* the first loop of updateVolatility over cfg.Tickers: a symbol without   *)
(* an entry or with fewer than 2 bars is skipped                           *)
Computed(Bars) ==
    [sym \in Symbols |->
        IF sym \notin DOMAIN Bars \/ Len(Bars[sym]) < 2
        THEN volatility[sym]
        ELSE AnnualizedVolatility(Bars[sym])]

(* a map handed over without its entries of 0 and NaN *)
EntriesPositive(vol) ==
    [sym \in {k \in Symbols : Positive(vol[k])} |-> vol[sym]]

(* the entries of run()'s map: the Go map handed to SetVolatilityMap *)
Entries(vol) ==
    [sym \in {k \in Symbols : vol[k] # Unset} |-> vol[sym]]

(* the second loop over cfg.Tickers, from entry i on: for v > 0 one Send   *)
(* when there is a pipe, then one PublishJSON                              *)
RECURSIVE Emit(_, _, _)
Emit(i, vol, pipe) ==
    IF i > Len(Tickers) THEN <<>>
    ELSE LET sym == Tickers[i]
             payload == [symbol |-> sym, annualized_vol_30d |-> vol[sym]]
         IN  (IF Positive(vol[sym])
              THEN (IF pipe # "nil"
                    THEN <<[op |-> "Send", type |-> "volatility", payload |-> payload]>>
                    ELSE <<>>)
                   \o <<[op |-> "PublishJSON", type |-> "volatility", payload |-> payload]>>
              ELSE <<>>)
             \o Emit(i + 1, vol, pipe)

(* an updateVolatility that empties its map when GetBars fails *)
updateVolatilityForgetting(resp) ==
    /\ brainPipe # "unset"
    /\ IF resp.err
       THEN /\ refresh' = [resp |-> resp, before |-> volatility, trace |-> <<>>]
            /\ volatility' = [sym \in Symbols |-> Unset]
            /\ UNCHANGED svolVars
       ELSE /\ Len(volCalls) < MaxRefreshes
            /\ volatility' = Computed(resp.Bars)
            /\ stateVolatility' =
                   [k \in Symbols |->
                       IF k \in DOMAIN Entries(volatility')
                       THEN volatility'[k] ELSE stateVolatility[k]]
            /\ volCalls' = Append(volCalls, Entries(volatility'))
            /\ refresh' =
                   [resp |-> resp, before |-> volatility,
                    trace |-> <<[op |-> "SetVolatilityMap",
                                 type |-> "state",
                                 payload |-> Entries(volatility')]>>
                              \o Emit(1, volatility', brainPipe)]
    /\ UNCHANGED brainPipe
    /\ UNCHANGED nonRefVars

(* updateVolatility(): GetBars; on an error nothing else; otherwise the    *)
(* map is recomputed, handed to state.SetVolatilityMap and the events are  *)
(* emitted                                                                 *)
updateVolatility(resp) ==
    /\ brainPipe # "unset"
    /\ IF resp.err
       THEN /\ refresh' = [resp |-> resp, before |-> volatility, trace |-> <<>>]
            /\ UNCHANGED <<volatility, svolVars>>
       ELSE /\ Len(volCalls) < MaxRefreshes
            /\ volatility' = Computed(resp.Bars)
            /\ stateVolatility' =
                   [k \in Symbols |->
                       IF k \in DOMAIN Entries(volatility')
                       THEN volatility'[k] ELSE stateVolatility[k]]
            /\ volCalls' = Append(volCalls, Entries(volatility'))
            /\ refresh' =
                   [resp |-> resp, before |-> volatility,
                    trace |-> <<[op |-> "SetVolatilityMap",
                                 type |-> "state",
                                 payload |-> Entries(volatility')]>>
                              \o Emit(1, volatility', brainPipe)]
    /\ UNCHANGED brainPipe
    /\ UNCHANGED nonRefVars

RefreshNext ==
    \/ \E started \in BOOLEAN : Configure(started)
    \/ \E resp \in BarsResponses : updateVolatility(resp)

RefreshSpec == Init /\ [][RefreshNext]_vars

(* ---------------------------------------------------------------------- *)
(* OnTrade and OnQuote of runStreaming                                     *)
(* ---------------------------------------------------------------------- *)
(* the trade and quote messages the callbacks are called with, and the     *)
(* instants they are stamped with (the clock is read at the same instant)  *)
TradeMsgs == {[p |-> 100, v |-> 10], [p |-> 101, v |-> 20]}
QuoteMsgs == {[bid |-> 100, ask |-> 102, bidSize |-> 1, askSize |-> 2]}
MsgTimes == {Minute, 3 * Minute}

(* vol := volatility[symbol]: the zero value for an absent key *)
VolOf(symbol) ==
    IF volatility[symbol] = Unset THEN <<0, 1>> ELSE volatility[symbol]

(* json.Marshal(obj): an error for a float64 that is NaN (json:            *)
(* unsupported value), otherwise the one line of the object                *)
Marshal(typ, payload) ==
    IF NaN \in {payload.return_1m, payload.return_5m, payload.volatility}
    THEN [err |-> TRUE, line |-> <<>>]
    ELSE [err |-> FALSE, line |-> <<[type |-> typ, payload |-> payload]>>]

(* brainPipe.Send(typ, payload) on a handle that is up or down: a handle   *)
(* that is down makes it a no-op, an error of Marshal is returned before   *)
(* anything is written, otherwise the line and its newline are written and *)
(* flushed                                                                 *)
Send(up, typ, payload) ==
    IF ~up THEN [res |-> "noop", lines |-> <<>>]
    ELSE IF Marshal(typ, payload).err THEN [res |-> "err", lines |-> <<>>]
    ELSE [res |-> "ok", lines |-> Marshal(typ, payload).line]

(* the end of a callback: if brainPipe != nil { _ = brainPipe.Send(...) }  *)
Deliver(typ, payload, up) ==
    /\ callback' =
          IF brainPipe = "nil"
          THEN [typ |-> typ, payload |-> payload, up |-> FALSE,
                res |-> "nopipe", lines |-> <<>>]
          ELSE [typ |-> typ, payload |-> payload, up |-> up,
                res |-> Send(up, typ, payload).res,
                lines |-> Send(up, typ, payload).lines]
    /\ cbCount' = cbCount + 1

(* priceStream.OnTrade: state.RecordTrade, then the payload from the       *)
(* message, the windows of the State, the session and the volatility map   *)
OnTrade(symbol, price, size, t, up) ==
    /\ refresh # NoRefresh /\ eastern # "unset"
    /\ cbCount < MaxCallbacks
    /\ priceHistory' = [priceHistory EXCEPT ![symbol] =
           TrimFront(Append(@, [t |-> t, p |-> price]), t - lookback)]
    /\ volumeHistory' = [volumeHistory EXCEPT ![symbol] =
           IF size > 0
           THEN TrimFront(Append(@, [t |-> t, v |-> size]), t - lookback)
           ELSE @]
    /\ trades' = [trades EXCEPT ![symbol] =
           Append(@, [t |-> t, p |-> price, v |-> size])]
    /\ Deliver("trade",
               [symbol |-> symbol, price |-> price, size |-> size,
                volume_1m |-> volumeSince(symbol, Minute, t)',
                volume_5m |-> volumeSince(symbol, 5 * Minute, t)',
                return_1m |-> returnSince(symbol, price, Minute, t)',
                return_5m |-> returnSince(symbol, price, 5 * Minute, t)',
                session |-> Session(clock, eastern),
                volatility |-> VolOf(symbol)],
               up)
    /\ UNCHANGED nonCbStateVars

(* mid := (bid + ask) / 2, for quotes whose bid + ask is even *)
Mid(bid, ask) ==
    (bid + ask) \div 2

(* an OnQuote that records the mid price and the quoted sizes as a trade *)
OnQuoteRecording(symbol, bid, ask, bidSize, askSize, t, up) ==
    /\ refresh # NoRefresh /\ eastern # "unset"
    /\ cbCount < MaxCallbacks
    /\ priceHistory' = [priceHistory EXCEPT ![symbol] =
           TrimFront(Append(@, [t |-> t, p |-> Mid(bid, ask)]), t - lookback)]
    /\ volumeHistory' = [volumeHistory EXCEPT ![symbol] =
           TrimFront(Append(@, [t |-> t, v |-> bidSize + askSize]), t - lookback)]
    /\ UNCHANGED trades
    /\ Deliver("quote",
               [symbol |-> symbol, bid |-> bid, ask |-> ask,
                bid_size |-> bidSize, ask_size |-> askSize,
                mid |-> Mid(bid, ask),
                volume_1m |-> volumeSince(symbol, Minute, t)',
                volume_5m |-> volumeSince(symbol, 5 * Minute, t)',
                return_1m |-> returnSince(symbol, Mid(bid, ask), Minute, t)',
                return_5m |-> returnSince(symbol, Mid(bid, ask), 5 * Minute, t)',
                session |-> Session(clock, eastern),
                volatility |-> VolOf(symbol)],
               up)
    /\ UNCHANGED nonCbStateVars

(* priceStream.OnQuote: the payload from the message, its mid price, the   *)
(* windows of the State, the session and the volatility map                *)
OnQuote(symbol, bid, ask, bidSize, askSize, t, up) ==
    /\ refresh # NoRefresh /\ eastern # "unset"
    /\ cbCount < MaxCallbacks
    /\ Deliver("quote",
               [symbol |-> symbol, bid |-> bid, ask |-> ask,
                bid_size |-> bidSize, ask_size |-> askSize,
                mid |-> Mid(bid, ask),
                volume_1m |-> volumeSince(symbol, Minute, t),
                volume_5m |-> volumeSince(symbol, 5 * Minute, t),
                return_1m |-> returnSince(symbol, Mid(bid, ask), Minute, t),
                return_5m |-> returnSince(symbol, Mid(bid, ask), 5 * Minute, t),
                session |-> Session(clock, eastern),
                volatility |-> VolOf(symbol)],
               up)
    /\ UNCHANGED nonCbVars

(* the call of updateVolatility() that runStreaming makes before it       *)
(* builds the stream clients; the later calls are those of the volatility  *)
(* timer                                                                   *)
FirstRefresh(resp) ==
    /\ refresh = NoRefresh
    /\ updateVolatility(resp)

(* runStreaming up to the streams: the callbacks run once the first        *)
(* updateVolatility() has returned                                         *)
CallbackNext ==
    \/ \E ok \in BOOLEAN : LoadLocation(ok)
    \/ \E started \in BOOLEAN : Configure(started)
    \/ \E resp \in BarsResponses : FirstRefresh(resp)
    \/ \E symbol \in Symbols, m \in TradeMsgs, t \in MsgTimes, up \in BOOLEAN :
          OnTrade(symbol, m.p, m.v, t, up)
    \/ \E symbol \in Symbols, m \in QuoteMsgs, t \in MsgTimes, up \in BOOLEAN :
          OnQuote(symbol, m.bid, m.ask, m.bidSize, m.askSize, t, up)

CallbackSpec == Init /\ [][CallbackNext]_vars

(* ---------------------------------------------------------------------- *)
(* PriceStream.handleMessage and setPrice                                  *)
(* ---------------------------------------------------------------------- *)
(* a field of a decoded message object: present with the expected type     *)
(* and a value, or missing or of another type                              *)
Str(v) == [ok |-> TRUE, v |-> v]
Num(v) == [ok |-> TRUE, v |-> v]
NoStr == [ok |-> FALSE, v |-> ""]
NoNum == [ok |-> FALSE, v |-> 0]

(* the message objects of the frames: trades and quotes with and without   *)
(* their symbol and prices, and an object with another T                   *)
Objects ==
    {[T |-> "t", S |-> S, p |-> p, bp |-> NoNum, ap |-> NoNum] :
        S \in {Str("A"), NoStr}, p \in {Num(100), Num(0), NoNum}}
    \cup {[T |-> "t", S |-> Str("B"), p |-> Num(101), bp |-> NoNum, ap |-> NoNum]}
    \cup {[T |-> "q", S |-> S, p |-> NoNum, bp |-> bp, ap |-> Num(102)] :
        S \in {Str("A"), NoStr}, bp \in {Num(100), NoNum}}
    \cup {[T |-> "q", S |-> Str("A"), p |-> NoNum, bp |-> Num(0), ap |-> Num(0)]}
    \cup {[T |-> "x", S |-> Str("A"), p |-> Num(100), bp |-> NoNum, ap |-> NoNum]}

(* the decoded frames: one or two message objects *)
FeedFrames ==
    {<<m>> : m \in Objects} \cup {<<m, n>> : m \in Objects, n \in Objects}

(* v, _ := m["k"].(T): the zero value when the assertion fails *)
TypeAssert(f, zero) ==
    IF f.ok THEN f.v ELSE zero

(* setPrice that stores a price of 0 or less *)
setPriceAnyPrice(pr, symbol, price) ==
    IF symbol = "" THEN pr
    ELSE [k \in DOMAIN pr \cup {symbol} |-> IF k = symbol THEN price ELSE pr[k]]

(* setPrice(symbol, price) on the map pr *)
setPrice(pr, symbol, price) ==
    IF symbol = "" \/ price <= 0 THEN pr
    ELSE [k \in DOMAIN pr \cup {symbol} |-> IF k = symbol THEN price ELSE pr[k]]

(* one turn of for _, m := range arr on message j of frame f: case "t"     *)
(* sets the price and calls OnTrade, case "q" sets the mid when it is      *)
(* positive and calls OnQuote, any other T does nothing                    *)
HandleEntry(st, f, j, m) ==
    LET sym == TypeAssert(m.S, "")
        mid == Mid(TypeAssert(m.bp, 0), TypeAssert(m.ap, 0))
    IN  IF m.T = "t"
        THEN [prices |-> setPrice(st.prices, sym, TypeAssert(m.p, 0)),
              invoked |-> Append(st.invoked,
                  [cb |-> "OnTrade", f |-> f, j |-> j, symbol |-> sym,
                   price |-> TypeAssert(m.p, 0)])]
        ELSE IF m.T = "q"
        THEN [prices |-> IF mid > 0 THEN setPrice(st.prices, sym, mid)
                         ELSE st.prices,
              invoked |-> Append(st.invoked,
                  [cb |-> "OnQuote", f |-> f, j |-> j, symbol |-> sym,
                   price |-> mid])]
        ELSE st

(* the loop of handleMessage over the objects of frame f from object j on *)
RECURSIVE HandleFrom(_, _, _, _)
HandleFrom(st, f, arr, j) ==
    IF j > Len(arr) THEN st
    ELSE HandleFrom(HandleEntry(st, f, j, arr[j]), f, arr, j + 1)

(* the objects handled so far *)
RECURSIVE NumEntries(_)
NumEntries(fs) ==
    IF fs = <<>> THEN 0 ELSE Len(Head(fs)) + NumEntries(Tail(fs))

(* p.handleMessage(data) for a frame that decodes as arr *)
handlePriceMessage(arr) ==
    /\ NumEntries(handled) + Len(arr) <= MaxEntries
    /\ handled' = Append(handled, arr)
    /\ LET st == HandleFrom([prices |-> prices, invoked |-> invoked],
                            Len(handled) + 1, arr, 1)
       IN  /\ prices' = st.prices
           /\ invoked' = st.invoked
    /\ UNCHANGED nonFeedVars

FeedNext == \E arr \in FeedFrames : handlePriceMessage(arr)

FeedSpec == Init /\ [][FeedNext]_vars

(* ---------------------------------------------------------------------- *)
(* NewsStream: the subscription and handleMessage                          *)
(* ---------------------------------------------------------------------- *)
(* the symbol lists a NewsStream is made with *)
NewsSymbolLists == {<<>>, <<"A">>, <<"A", "B">>}

(* the entries of a news frame, with their T and id, and what ReadMessage  *)
(* returns: an error, a frame that does not decode, or zero to two entries *)
NewsEntries == {[T |-> "n", ID |-> 1], [T |-> "n", ID |-> 2], [T |-> "t", ID |-> 3]}
NewsReads ==
    {[err |-> TRUE, ok |-> FALSE, arr |-> <<>>],
     [err |-> FALSE, ok |-> FALSE, arr |-> <<>>],
     [err |-> FALSE, ok |-> TRUE, arr |-> <<>>]}
    \cup {[err |-> FALSE, ok |-> TRUE, arr |-> <<m>>] : m \in NewsEntries}
    \cup {[err |-> FALSE, ok |-> TRUE, arr |-> <<m, n>>] :
             m \in NewsEntries, n \in NewsEntries}

(* subSymbols := n.symbols; if len(subSymbols) == 0 { subSymbols = {"*"} } *)
subSymbols(symbols) ==
    IF Len(symbols) = 0 THEN <<"*">> ELSE symbols

RECURSIVE handleNewsAnyTag(_)
RECURSIVE handleNewsMessage(_)

(* a loop that hands every entry to OnNews *)
handleNewsAnyTag(arr) ==
    IF arr = <<>> THEN <<>>
    ELSE <<Head(arr).ID>> \o handleNewsAnyTag(Tail(arr))

(* n.handleMessage on a decoded frame: the ids handed to OnNews, entries   *)
(* whose T is not "n" being passed over                                    *)
handleNewsMessage(arr) ==
    IF arr = <<>> THEN <<>>
    ELSE (IF Head(arr).T # "n" THEN <<>> ELSE <<Head(arr).ID>>)
         \o handleNewsMessage(Tail(arr))

(* alpaca.NewNewsStream(..., symbols) *)
NewNewsStream(symbols) ==
    /\ nsPc = "none"
    /\ nsym' = symbols
    /\ nsPc' = "made"
    /\ UNCHANGED <<nsub, nhandled, articles>>
    /\ UNCHANGED nonNewsVars

(* Run of the news client from its dial to its subscribe message, all of   *)
(* which succeed                                                           *)
NewsSubscribe ==
    /\ nsPc = "made"
    /\ nsub' = subSymbols(nsym)
    /\ nsPc' = "streaming"
    /\ UNCHANGED <<nsym, nhandled, articles>>
    /\ UNCHANGED nonNewsVars

(* one turn of the loop of Run: a read error ends Run, an error of         *)
(* handleMessage is logged                                                 *)
NewsRead(in) ==
    /\ nsPc = "streaming"
    /\ IF in.err
       THEN /\ nsPc' = "returned"
            /\ UNCHANGED <<nhandled, articles>>
       ELSE /\ Len(nhandled) < MaxEntries
            /\ nhandled' = Append(nhandled, [ok |-> in.ok, arr |-> in.arr])
            /\ articles' = IF in.ok THEN articles \o handleNewsMessage(in.arr)
                           ELSE articles
            /\ UNCHANGED nsPc
    /\ UNCHANGED <<nsym, nsub>>
    /\ UNCHANGED nonNewsVars

NewsNext ==
    \/ \E symbols \in NewsSymbolLists : NewNewsStream(symbols)
    \/ NewsSubscribe
    \/ \E in \in NewsReads : NewsRead(in)

NewsSpec == Init /\ [][NewsNext]_vars

(* ---------------------------------------------------------------------- *)
(* PriceStream.Run, NewsStream.Run                                         *)
(* ---------------------------------------------------------------------- *)
(* readOneControl that does not look at T *)
readOneControlAnyT(in) ==
    IF in.err THEN "read"
    ELSE IF ~in.data.ok \/ Len(in.data.arr) = 0 THEN "unexpected control"
    ELSE ""

(* readOneControl on what ReadMessage returned: the error, if any *)
readOneControl(in) ==
    IF in.err THEN "read"
    ELSE IF ~in.data.ok \/ Len(in.data.arr) = 0 THEN "unexpected control"
    ELSE IF in.data.arr[1] = "error" THEN "alpaca stream error"
    ELSE ""

(* the callback handleMessage invokes for one message of a frame *)
CallbackOf(c, T) ==
    IF c = "price" /\ T = "t" THEN <<"OnTrade">>
    ELSE IF c = "price" /\ T = "q" THEN <<"OnQuote">>
    ELSE IF c = "news" /\ T = "n" THEN <<"OnNews">>
    ELSE <<>>

RECURSIVE handleMessageReversed(_, _)
RECURSIVE handleMessage(_, _)

(* a loop that runs over the messages of a frame from the last to the      *)
(* first                                                                   *)
handleMessageReversed(c, arr) ==
    IF arr = <<>> THEN <<>>
    ELSE handleMessageReversed(c, Tail(arr)) \o CallbackOf(c, Head(arr))

(* the loop of handleMessage over the messages of a decoded frame *)
handleMessage(c, arr) ==
    IF arr = <<>> THEN <<>>
    ELSE CallbackOf(c, Head(arr)) \o handleMessage(c, Tail(arr))

(* the calls of brainPipe.Send made by the callbacks cbs, the first of     *)
(* them being invocation number base + 1 of this Run: each call returns    *)
(* before the next callback starts, and the calls at the positions in wr   *)
(* write their line (the others find no handle or a handle that is down,   *)
(* or fail)                                                                *)
RECURSIVE Sent(_, _, _, _)
Sent(base, cbs, k, wr) ==
    IF k > Len(cbs) THEN <<>>
    ELSE (IF k \in wr THEN <<[type |-> cbs[k], n |-> base + k]>> ELSE <<>>)
         \o Sent(base, cbs, k + 1, wr)

(* a return of Run with an error: the deferred conn.Close() runs *)
Return(e) ==
    /\ runErr' = e
    /\ runPc' = "disconnected"
    /\ conn' = IF conn = "open" THEN "closed" ELSE conn

(* the caller's loop calls Run of a client *)
Run(c) ==
    /\ runPc = "disconnected"
    /\ runs < MaxRuns
    /\ runs' = runs + 1
    /\ client' = c
    /\ runPc' = "connecting"
    /\ conn' = "none"
    /\ wrote' = <<>>
    /\ frames' = <<>>
    /\ dispatched' = <<>>
    /\ slogged' = 0
    /\ runErr' = ""
    /\ dials' = 0
    /\ ioErrs' = 0
    /\ piped' = <<>>
    /\ waited' = 0
    /\ UNCHANGED nonStrmVars

(* a Dial that is tried again when it fails *)
DialAgain(ok) ==
    /\ runPc = "connecting"
    /\ dials' = dials + 1
    /\ IF ok
       THEN /\ conn' = "open"
            /\ runPc' = "authenticating"
            /\ UNCHANGED <<runErr, ioErrs>>
       ELSE /\ ioErrs' = ioErrs + 1
            /\ IF dials = 0
               THEN UNCHANGED <<runPc, conn, runErr>>
               ELSE Return("dial")
    /\ UNCHANGED <<client, wrote, frames, dispatched, slogged, runs, piped,
                   waited>>
    /\ UNCHANGED nonStrmVars

(* websocket.DefaultDialer.Dial *)
Dial(ok) ==
    /\ runPc = "connecting"
    /\ dials' = dials + 1
    /\ IF ok
       THEN /\ conn' = "open"
            /\ runPc' = "authenticating"
            /\ UNCHANGED <<runErr, ioErrs>>
       ELSE /\ ioErrs' = ioErrs + 1
            /\ Return("dial")
    /\ UNCHANGED <<client, wrote, frames, dispatched, slogged, runs, piped,
                   waited>>
    /\ UNCHANGED nonStrmVars

(* one write of an action message followed by one readOneControl *)
Handshake(msg, next, wok, in) ==
    /\ IF ~wok
       THEN /\ Return(msg \o " write")
            /\ ioErrs' = ioErrs + 1
            /\ UNCHANGED <<wrote, frames>>
       ELSE /\ wrote' = Append(wrote, msg)
            /\ frames' = IF in.err THEN frames ELSE Append(frames, in.data)
            /\ ioErrs' = IF in.err THEN ioErrs + 1 ELSE ioErrs
            /\ IF readOneControl(in) # ""
               THEN Return(readOneControl(in))
               ELSE /\ runPc' = next
                    /\ UNCHANGED <<conn, runErr>>
    /\ UNCHANGED <<client, dispatched, slogged, runs, dials, piped, waited>>
    /\ UNCHANGED nonStrmVars

(* a loop that returns when handleMessage fails *)
ReadLoopStrict(in, wr) ==
    /\ runPc = "streaming"
    /\ IF in.err
       THEN /\ Return("read")
            /\ ioErrs' = ioErrs + 1
            /\ UNCHANGED <<frames, dispatched, slogged, piped>>
       ELSE /\ Len(frames) < MaxFrames
            /\ frames' = Append(frames, in.data)
            /\ IF ~in.data.ok
               THEN /\ Return("decode")
                    /\ UNCHANGED <<dispatched, slogged, piped>>
               ELSE /\ dispatched' = dispatched \o handleMessage(client, in.data.arr)
                    /\ piped' = piped \o Sent(Len(dispatched),
                                               handleMessage(client, in.data.arr),
                                               1, wr)
                    /\ UNCHANGED <<slogged, conn, runPc, runErr>>
            /\ UNCHANGED ioErrs
    /\ UNCHANGED <<client, wrote, runs, dials, waited>>
    /\ UNCHANGED nonStrmVars

(* one turn of the loop of Run: ReadMessage, then handleMessage, whose     *)
(* error is logged                                                         *)
ReadLoop(in, wr) ==
    /\ runPc = "streaming"
    /\ IF in.err
       THEN /\ Return("read")
            /\ ioErrs' = ioErrs + 1
            /\ UNCHANGED <<frames, dispatched, slogged, piped>>
       ELSE /\ Len(frames) < MaxFrames
            /\ frames' = Append(frames, in.data)
            /\ IF ~in.data.ok
               THEN /\ slogged' = slogged + 1
                    /\ UNCHANGED <<dispatched, piped>>
               ELSE /\ dispatched' = dispatched \o handleMessage(client, in.data.arr)
                    /\ piped' = piped \o Sent(Len(dispatched),
                                               handleMessage(client, in.data.arr),
                                               1, wr)
                    /\ UNCHANGED slogged
            /\ UNCHANGED <<conn, runPc, runErr, ioErrs>>
    /\ UNCHANGED <<client, wrote, runs, dials, waited>>
    /\ UNCHANGED nonStrmVars

(* conn.WriteJSON(authMsg); Run then calls readOneControl, whose           *)
(* conn.ReadMessage() blocks until a frame or an error arrives             *)
Authenticate(wok) ==
    /\ runPc = "authenticating"
    /\ IF ~wok
       THEN /\ Return("auth write")
            /\ ioErrs' = ioErrs + 1
            /\ UNCHANGED wrote
       ELSE /\ wrote' = Append(wrote, "auth")
            /\ runPc' = "awaiting"
            /\ UNCHANGED <<conn, runErr, ioErrs>>
    /\ UNCHANGED <<client, frames, dispatched, slogged, runs, dials, piped,
                   waited>>
    /\ UNCHANGED nonStrmVars

(* a second passes with nothing arriving on the connection: no read        *)
(* deadline is set on conn, ReadMessage stays blocked                      *)
Blocked ==
    /\ runPc = "awaiting"
    /\ waited <= AuthTimeout
    /\ waited' = waited + 1
    /\ UNCHANGED <<client, runPc, conn, wrote, frames, dispatched, slogged,
                   runErr, runs, dials, ioErrs, piped>>
    /\ UNCHANGED nonStrmVars

(* the ReadMessage of the first readOneControl returns *)
AuthResponse(in) ==
    /\ runPc = "awaiting"
    /\ frames' = IF in.err THEN frames ELSE Append(frames, in.data)
    /\ ioErrs' = IF in.err THEN ioErrs + 1 ELSE ioErrs
    /\ IF readOneControl(in) # ""
       THEN Return(readOneControl(in))
       ELSE /\ runPc' = "subscribing"
            /\ UNCHANGED <<conn, runErr>>
    /\ waited' = 0
    /\ UNCHANGED <<client, wrote, dispatched, slogged, runs, dials, piped>>
    /\ UNCHANGED nonStrmVars

(* conn.WriteJSON(sub); readOneControl(conn) *)
Subscribe(wok, in) ==
    /\ runPc = "subscribing"
    /\ Handshake("subscribe", "streaming", wok, in)

StreamNext ==
    \/ \E c \in Clients : Run(c)
    \/ \E ok \in BOOLEAN : Dial(ok)
    \/ \E wok \in BOOLEAN : Authenticate(wok)
    \/ Blocked
    \/ \E in \in ReadOutcomes : AuthResponse(in)
    \/ \E wok \in BOOLEAN, in \in ReadOutcomes : Subscribe(wok, in)
    \/ \E in \in ReadOutcomes, wr \in SUBSET {1, 2} : ReadLoop(in, wr)

StreamSpec == Init /\ [][StreamNext]_vars

(* ---------------------------------------------------------------------- *)
(* main and runStreaming: start-up, the background tasks, shutdown         *)
(* ---------------------------------------------------------------------- *)
(* a check that does not look at the secret *)
ValidKeyOnly(c) ==
    /\ ~(c.APIKeyID = "")
    /\ Len(c.Tickers) # 0

(* the checks of main on the loaded configuration *)
Valid(c) ==
    /\ ~(c.APIKeyID = "" \/ c.APISecretKey = "")
    /\ Len(c.Tickers) # 0

(* config.Load and the checks of main: os.Exit(1) on a missing credential  *)
(* or an empty symbol list, else runStreaming or runOneShot                *)
LoadConfig(c) ==
    /\ mainPc = "start"
    /\ cfg' = c
    /\ IF ~Valid(c)
       THEN mainPc' = "exited" /\ exitCode' = 1
       ELSE /\ mainPc' = IF c.StreamingMode THEN "brain" ELSE "oneshot"
            /\ UNCHANGED exitCode
    /\ UNCHANGED <<effects, supervisor, cancelled, signalled, taskPc, tickReady, runCalls>>
    /\ UNCHANGED nonOrchVars

(* runOneShot: the REST fetches, then os.Exit(1) if the bars could not be  *)
(* fetched, else the return of main                                        *)
runOneShot(ok) ==
    /\ mainPc = "oneshot"
    /\ effects' = effects \cup {"fetch"}
    /\ mainPc' = "exited"
    /\ exitCode' = IF ok THEN 0 ELSE 1
    /\ UNCHANGED <<cfg, supervisor, cancelled, signalled, taskPc, tickReady, runCalls>>
    /\ UNCHANGED nonOrchVars

(* a start-up that leaves the first updateVolatility() to the timer *)
ConstructWithoutRefresh(started) ==
    /\ mainPc = "brain"
    /\ supervisor' = IF cfg.BrainCmd # "" /\ started THEN "running" ELSE "none"
    /\ effects' = effects
                  \cup (IF cfg.BrainCmd # "" THEN {"spawn"} ELSE {})
                  \cup (IF cfg.RedisURL # "" THEN {"redis"} ELSE {})
    /\ mainPc' = "tasks"
    /\ UNCHANGED <<cfg, exitCode, cancelled, signalled, taskPc, tickReady, runCalls>>
    /\ UNCHANGED nonOrchVars

(* brain.StartPipe(cfg.BrainCmd) when a command is configured, then the    *)
(* publisher and the first updateVolatility()                              *)
Construct(started) ==
    /\ mainPc = "brain"
    /\ supervisor' = IF cfg.BrainCmd # "" /\ started THEN "running" ELSE "none"
    /\ effects' = effects
                  \cup (IF cfg.BrainCmd # "" THEN {"spawn"} ELSE {})
                  \cup (IF cfg.RedisURL # "" THEN {"redis"} ELSE {})
                  \cup {"fetch"}
    /\ mainPc' = "tasks"
    /\ UNCHANGED <<cfg, exitCode, cancelled, signalled, taskPc, tickReady, runCalls>>
    /\ UNCHANGED nonOrchVars

(* signal.NotifyContext(ctx, os.Interrupt) and the four go statements: the *)
(* stream tasks call Run, the timer tasks come to their select             *)
StartTasks ==
    /\ mainPc = "tasks"
    /\ mainPc' = "waiting"
    /\ taskPc' = [t \in Tasks |-> IF t \in Streams THEN "run" ELSE "select"]
    /\ runCalls' = [s \in Streams |-> 1]
    /\ effects' = effects \cup {"dial"}
    /\ UNCHANGED <<cfg, exitCode, supervisor, cancelled, signalled, tickReady>>
    /\ UNCHANGED nonOrchVars

(* the process runs and has not begun to exit *)
Running ==
    mainPc \notin {"start", "exited", "killed"}

(* a signal is delivered: os.Interrupt cancels ctx once NotifyContext has  *)
(* registered it; before that, and for any other signal, the Go runtime    *)
(* ends the process, with no deferred call                                 *)
Signal(sig) ==
    /\ Running
    /\ signalled = ""
    /\ signalled' = sig
    /\ IF sig = "interrupt" /\ mainPc = "waiting"
       THEN cancelled' = TRUE /\ UNCHANGED mainPc
       ELSE mainPc' = "killed" /\ UNCHANGED cancelled
    /\ UNCHANGED <<cfg, exitCode, effects, supervisor, taskPc, tickReady, runCalls>>
    /\ UNCHANGED nonOrchVars

(* Run of a stream client returns its error to the task's loop *)
RunReturns(s) ==
    /\ Running
    /\ taskPc[s] = "run"
    /\ taskPc' = [taskPc EXCEPT ![s] = "check"]
    /\ UNCHANGED <<cfg, mainPc, exitCode, effects, supervisor, cancelled,
                   signalled, tickReady, runCalls>>
    /\ UNCHANGED nonOrchVars

(* a loop that gives up after its second Run *)
AfterRunGivingUp(s) ==
    /\ Running
    /\ taskPc[s] = "check"
    /\ taskPc' = [taskPc EXCEPT ![s] =
                      IF cancelled \/ runCalls[s] >= 2 THEN "stopped" ELSE "sleep"]
    /\ UNCHANGED <<cfg, mainPc, exitCode, effects, supervisor, cancelled,
                   signalled, tickReady, runCalls>>
    /\ UNCHANGED nonOrchVars

(* select { case <-ctx.Done(): return; default: time.Sleep(5s) } *)
AfterRun(s) ==
    /\ Running
    /\ taskPc[s] = "check"
    /\ taskPc' = [taskPc EXCEPT ![s] = IF cancelled THEN "stopped" ELSE "sleep"]
    /\ UNCHANGED <<cfg, mainPc, exitCode, effects, supervisor, cancelled,
                   signalled, tickReady, runCalls>>
    /\ UNCHANGED nonOrchVars

(* time.Sleep returns and the for loop calls Run again *)
Reconnect(s) ==
    /\ Running
    /\ taskPc[s] = "sleep"
    /\ runCalls[s] < MaxRunCalls
    /\ taskPc' = [taskPc EXCEPT ![s] = "run"]
    /\ runCalls' = [runCalls EXCEPT ![s] = @ + 1]
    /\ effects' = effects \cup {"dial"}
    /\ UNCHANGED <<cfg, mainPc, exitCode, supervisor, cancelled, signalled,
                   tickReady>>
    /\ UNCHANGED nonOrchVars

(* the ticker of a timer task fires: a task blocked in its select (and not *)
(* already woken by ctx.Done()) receives the tick and runs it; otherwise   *)
(* ticker.C holds the tick                                                 *)
TickerFires(t) ==
    /\ Running
    /\ taskPc[t] \in {"wait", "select", "tick"}
    /\ ~tickReady[t]
    /\ IF taskPc[t] = "wait" /\ ~cancelled
       THEN taskPc' = [taskPc EXCEPT ![t] = "tick"] /\ UNCHANGED tickReady
       ELSE tickReady' = [tickReady EXCEPT ![t] = TRUE] /\ UNCHANGED taskPc
    /\ UNCHANGED <<cfg, mainPc, exitCode, effects, supervisor, cancelled,
                   signalled, runCalls>>
    /\ UNCHANGED nonOrchVars

(* the task enters select with a tick in ticker.C and select takes         *)
(* case <-ticker.C, whether or not ctx.Done() is ready as well             *)
TakeTick(t) ==
    /\ Running
    /\ taskPc[t] = "select"
    /\ tickReady[t]
    /\ tickReady' = [tickReady EXCEPT ![t] = FALSE]
    /\ taskPc' = [taskPc EXCEPT ![t] = "tick"]
    /\ UNCHANGED <<cfg, mainPc, exitCode, effects, supervisor, cancelled,
                   signalled, runCalls>>
    /\ UNCHANGED nonOrchVars

(* the tick (updateVolatility, pushPositionsAndOrders) is done and the     *)
(* loop comes back to its select                                           *)
TickDone(t) ==
    /\ Running
    /\ taskPc[t] = "tick"
    /\ taskPc' = [taskPc EXCEPT ![t] = "select"]
    /\ effects' = effects \cup {"fetch"}
    /\ UNCHANGED <<cfg, mainPc, exitCode, supervisor, cancelled, signalled,
                   tickReady, runCalls>>
    /\ UNCHANGED nonOrchVars

(* select finds no case ready and blocks *)
Park(t) ==
    /\ Running
    /\ taskPc[t] = "select"
    /\ ~tickReady[t] /\ ~cancelled
    /\ taskPc' = [taskPc EXCEPT ![t] = "wait"]
    /\ UNCHANGED <<cfg, mainPc, exitCode, effects, supervisor, cancelled,
                   signalled, tickReady, runCalls>>
    /\ UNCHANGED nonOrchVars

(* select takes case <-ctx.Done(): the timer task returns *)
TimerStops(t) ==
    /\ Running
    /\ taskPc[t] \in {"select", "wait"}
    /\ cancelled
    /\ taskPc' = [taskPc EXCEPT ![t] = "stopped"]
    /\ UNCHANGED <<cfg, mainPc, exitCode, effects, supervisor, cancelled,
                   signalled, tickReady, runCalls>>
    /\ UNCHANGED nonOrchVars

(* <-ctx.Done() in runStreaming, then its deferred calls begin *)
MainStops ==
    /\ mainPc = "waiting"
    /\ cancelled
    /\ mainPc' = "closing"
    /\ UNCHANGED <<cfg, exitCode, effects, supervisor, cancelled, signalled,
                   taskPc, tickReady, runCalls>>
    /\ UNCHANGED nonOrchVars

(* the deferred brainPipe.Close() returns and main returns *)
Exit ==
    /\ mainPc = "closing"
    /\ supervisor' = IF supervisor = "running" THEN "closed" ELSE supervisor
    /\ mainPc' = "exited"
    /\ exitCode' = 0
    /\ UNCHANGED <<cfg, effects, cancelled, signalled, taskPc, tickReady, runCalls>>
    /\ UNCHANGED nonOrchVars

OrchNext ==
    \/ \E c \in Configs : LoadConfig(c)
    \/ \E ok \in BOOLEAN : runOneShot(ok)
    \/ \E started \in BOOLEAN : Construct(started)
    \/ StartTasks
    \/ \E sig \in Signals : Signal(sig)
    \/ \E s \in Streams : RunReturns(s) \/ AfterRun(s) \/ Reconnect(s)
    \/ \E t \in Timers : TickerFires(t) \/ TakeTick(t) \/ TickDone(t)
    \/ \E t \in Timers : Park(t) \/ TimerStops(t)
    \/ MainStops
    \/ Exit

OrchSpec == Init /\ [][OrchNext]_vars

(* the scheduler runs a goroutine that can take a step, and a sleep ends *)
OrchFairness ==
    \A s \in Streams : WF_vars(AfterRun(s)) /\ WF_vars(Reconnect(s))

FairOrchSpec == OrchSpec /\ OrchFairness

(* ---------------------------------------------------------------------- *)
(* config.Load: PositionsIntervalSec; the positions timer of runStreaming  *)
(* ---------------------------------------------------------------------- *)
(* the most calls of pushPositionsAndOrders followed *)
MaxPolls == 2

(* the values of POSITIONS_INTERVAL_SEC tried, as their characters; <<>>   *)
(* is the variable unset or empty                                          *)
EnvValues ==
    {<<>>, <<"x">>, <<"1", "5", "s">>, <<"-">>, <<"0">>, <<"4">>, <<"5">>,
     <<"+", "7">>, <<"-", "1">>, <<"3", "0">>, <<"3", "0", "0">>,
     <<"3", "0", "1">>, <<"9", "9", "9">>}

DigitValue ==
    [c \in {"0", "1", "2", "3", "4", "5", "6", "7", "8", "9"} |->
        CASE c = "0" -> 0 [] c = "1" -> 1 [] c = "2" -> 2 [] c = "3" -> 3
          [] c = "4" -> 4 [] c = "5" -> 5 [] c = "6" -> 6 [] c = "7" -> 7
          [] c = "8" -> 8 [] c = "9" -> 9]

(* the decimal digits of s read from the left onto n *)
RECURSIVE ReadDigits(_, _)
ReadDigits(s, n) ==
    IF s = <<>> THEN [n |-> n, err |-> FALSE]
    ELSE IF Head(s) \notin DOMAIN DigitValue THEN [n |-> 0, err |-> TRUE]
    ELSE ReadDigits(Tail(s), n * 10 + DigitValue[Head(s)])

(* strconv.Atoi: an optional sign, then at least one digit and only digits *)
Atoi(s) ==
    LET signed == s # <<>> /\ Head(s) \in {"+", "-"}
        digits == IF signed THEN Tail(s) ELSE s
        r == ReadDigits(digits, 0)
    IN  IF digits = <<>> THEN [n |-> 0, err |-> TRUE]
        ELSE IF r.err THEN r
        ELSE [n |-> IF signed /\ Head(s) = "-" THEN 0 - r.n ELSE r.n,
              err |-> FALSE]

(* envIntOrDefault(key, def), v the value of the variable *)
envIntOrDefault(v, def) ==
    IF v # <<>> /\ ~Atoi(v).err THEN Atoi(v).n ELSE def

DefaultIntervalSec == 15
MinIntervalSec == 5
MaxIntervalSec == 300

(* Load: positionsIntervalSec, raised to 5 and lowered to 300 *)
PositionsIntervalSec(v) ==
    LET n == envIntOrDefault(v, DefaultIntervalSec)
    IN  IF n < MinIntervalSec THEN MinIntervalSec
        ELSE IF n > MaxIntervalSec THEN MaxIntervalSec
        ELSE n

(* time.NewTicker(30 * time.Second) of the positions timer *)
TickerSeconds == 30

(* one event of the positions timer to both sinks: Send when there is a    *)
(* pipe, then Publish                                                      *)
PollEvent(typ, up) ==
    (IF up THEN <<[op |-> "Send", type |-> typ]>> ELSE <<>>)
    \o <<[op |-> "Publish", type |-> typ]>>

(* a poll that goes on to the orders when the positions could not be       *)
(* fetched                                                                 *)
pushOrdersRegardless(up, posOk, ordOk) ==
    (IF posOk THEN PollEvent("positions", up) ELSE <<>>)
    \o (IF ordOk THEN PollEvent("orders", up) ELSE <<>>)

(* pushPositionsAndOrders(): GetPositions, return on its error; the        *)
(* positions event; GetOpenOrders, return on its error; the orders event   *)
pushPositionsAndOrders(up, posOk, ordOk) ==
    IF ~posOk THEN <<>>
    ELSE PollEvent("positions", up)
         \o (IF ~ordOk THEN <<>> ELSE PollEvent("orders", up))

(* config.Load reads POSITIONS_INTERVAL_SEC *)
LoadInterval(v) ==
    /\ pollPc = "unloaded"
    /\ posEnv' = v
    /\ intervalSec' = PositionsIntervalSec(v)
    /\ pollPc' = "loaded"
    /\ UNCHANGED <<period, sinceTick, polls, polled>>
    /\ UNCHANGED nonPollVars

(* the positions timer task starts: NewTicker, then the first              *)
(* pushPositionsAndOrders() before the loop                                *)
StartPolling(up, posOk, ordOk) ==
    /\ pollPc = "loaded"
    /\ period' = TickerSeconds
    /\ sinceTick' = 0
    /\ polls' = 1
    /\ polled' = [posOk |-> posOk, ordOk |-> ordOk,
                  trace |-> pushPositionsAndOrders(up, posOk, ordOk)]
    /\ pollPc' = "polling"
    /\ UNCHANGED <<posEnv, intervalSec>>
    /\ UNCHANGED nonPollVars

(* a second passes with the task in its select *)
Second ==
    /\ pollPc = "polling"
    /\ sinceTick < period
    /\ sinceTick' = sinceTick + 1
    /\ UNCHANGED <<posEnv, intervalSec, pollPc, period, polls, polled>>
    /\ UNCHANGED nonPollVars

(* case <-ticker.C: pushPositionsAndOrders() *)
PollTick(up, posOk, ordOk) ==
    /\ pollPc = "polling"
    /\ sinceTick = period
    /\ polls < MaxPolls
    /\ sinceTick' = 0
    /\ polls' = polls + 1
    /\ polled' = [posOk |-> posOk, ordOk |-> ordOk,
                  trace |-> pushPositionsAndOrders(up, posOk, ordOk)]
    /\ UNCHANGED <<posEnv, intervalSec, pollPc, period>>
    /\ UNCHANGED nonPollVars

PollNext ==
    \/ \E v \in EnvValues : LoadInterval(v)
    \/ \E up, posOk, ordOk \in BOOLEAN : StartPolling(up, posOk, ordOk)
    \/ Second
    \/ \E up, posOk, ordOk \in BOOLEAN : PollTick(up, posOk, ordOk)

PollSpec == Init /\ [][PollNext]_vars


(* ====================================================================== *)
(* Claims                                                                  *)
(* ====================================================================== *)

(* C1: every call of Close that has requested shutdown and waits for the   *)
(* supervisor eventually returns, whatever the supervisor was doing.       *)
C1_CloseReturns ==
    \A c \in Closers : (closePc[c] = "wait") ~> (closePc[c] = "ret")

(* C2: whenever a call of Close has returned, the supervisor has           *)
(* terminated and no child process of the handle is running.               *)
C2_NoWorkAfterClose ==
    \A c \in Closers :
        (closePc[c] = "ret" /\ startRes = "handle")
            => (supPc = "done" /\ live = {})

(* The child exited although shutdown was not requested, and the           *)
(* supervisor has not yet handled the exit.                                *)
UnexpectedExit ==
    /\ startRes = "handle" /\ ~shutdown
    /\ cmd # Nil /\ cmd \notin live
    /\ supPc \in {"load", "wait"}

(* C3 (as stated): an unexpected exit is always followed by a re-spawn     *)
(* attempt.                                                                *)
C3_ExitLeadsToRespawn == UnexpectedExit ~> (supPc = "spawn")

(* C3 (amended): an unexpected exit is followed by a re-spawn attempt      *)
(* unless shutdown is requested before the backoff has ended; a re-spawn   *)
(* attempt is made only from the post-sleep check after the whole backoff  *)
(* has elapsed; every process runs the original command line; and the loop *)
(* ends only when shutdown was requested.                                  *)
C3_RespawnAfterBackoff ==
    /\ UnexpectedExit ~> (supPc = "spawn" \/ shutdown)
    /\ [][(supPc' = "spawn" /\ supPc # "spawn")
             => (supPc = "recheck" /\ sleepLeft = 0 /\ ~shutdown)]_vars
    /\ [][(supPc' = "recheck" /\ supPc # "recheck")
             => (supPc = "sleep" /\ sleepLeft = brainRestartBackoff
                 /\ sleepLeft' = 0)]_vars
    /\ [](\A p \in live : argv[p] = splitCmd(startArg))
    /\ [](supPc = "done" => shutdown)

C3_Witness ==
    /\ supPc = "install" /\ supNew \in live /\ ~shutdown
    /\ cmd # Nil /\ cmd \notin live

(* C7: a re-spawn that fails keeps the loop running with the handle down   *)
(* (closed, no writer, so that Send is a no-op), and the loop comes back   *)
(* to another spawn attempt unless shutdown is requested.                  *)
FailedRespawn == startRes = "handle" /\ supPc = "load" /\ cmd = Nil

C7_FailedRespawnRetried ==
    /\ [][(supPc = "spawn" /\ supPc' \notin {"spawn", "install"})
             => (supPc' = "load" /\ cmd' = Nil /\ stdin' = Nil /\ closed'
                 /\ ~done')]_vars
    /\ []((startRes = "handle" /\ cmd = Nil) => (closed /\ stdin = Nil))
    /\ [][\A s \in Senders :
             (cmd = Nil /\ startRes = "handle" /\ inbox[s] /\ ~inbox'[s])
                => (sendRes'[s] = "noop" /\ pc'[s] = "publish"
                    /\ childIn' = childIn)]_vars
    /\ FailedRespawn ~> (supPc = "spawn" \/ shutdown)

(* a second consecutive failure: the handle is down and a spawn is tried   *)
(* again                                                                   *)
C7_Witness ==
    /\ startRes = "handle" /\ cmd = Nil /\ supPc = "spawn" /\ ~shutdown
    /\ \E s \in Senders : sendRes[s] = "noop"

(* C4: a Send made while the handle's process is dead (from the child's    *)
(* death to the installation of its replacement) returns no error and      *)
(* delivers nothing: its result is the silent no-op.                       *)
C4_DeadSendIsNoop ==
    \A s \in Senders :
        (sendDead[s] /\ pc[s] = "publish") => sendRes[s] = "noop"

(* C5: a handle never has two live processes, and a process is started     *)
(* only when none is alive: by StartPipe, or by the supervisor after Wait  *)
(* returned and the backoff was slept.                                     *)
C5_OneLiveProcess ==
    /\ [](Cardinality(live) <= 1)
    /\ [][(live' \ live # {})
             => (live = {} /\ (startRes = "none" \/ supPc = "spawn"))]_vars

C5_Witness ==
    /\ nspawn >= 2 /\ cmd \in live /\ cmd = nspawn /\ ~closed

Blank(line) == Len(splitCmd(line)) = 0

(* C6 (as stated): StartPipe returns an error for an empty or              *)
(* whitespace-only command line and for a program that cannot be spawned,  *)
(* and a handle only when a process was started.                           *)
C6_StartFailsWithError ==
    startRes # "none" =>
        /\ (Blank(startArg) \/ startOutcome # "ok") => startRes = "err"
        /\ startRes = "handle" => nspawn >= 1

(* C6 (amended): for an empty or whitespace-only command line StartPipe    *)
(* returns no handle and no error (nil, nil) and starts nothing; it        *)
(* returns an error when the program cannot be spawned; it returns a       *)
(* handle exactly when a process was started from the command line.        *)
C6_StartResult ==
    startRes # "none" =>
        /\ Blank(startArg) => (startRes = "nil" /\ nspawn = 0)
        /\ (~Blank(startArg) /\ startOutcome # "ok")
              => (startRes = "err" /\ nspawn = 0)
        /\ startRes = "handle" <=> (~Blank(startArg) /\ startOutcome = "ok")
        /\ startRes = "handle"
              => (nspawn >= 1 /\ argv[1] = splitCmd(startArg)
                  /\ cmdLine = startArg /\ supPc # "none")
        /\ startRes # "handle" => (supPc = "none" /\ live = {})

C6_Witness ==
    startRes = "nil" /\ Len(startArg) > 0

(* a sequence of complete lines, each the line of one event *)
RECURSIVE CompleteLines(_)
CompleteLines(bytes) ==
    \/ bytes = <<>>
    \/ /\ Len(bytes) >= LineLen
       /\ \E s \in Senders : SubSeq(bytes, 1, LineLen) = Append(Line(s), NL)
       /\ CompleteLines(SubSeq(bytes, LineLen + 1, Len(bytes)))

(* C8: with concurrent callers of Send, the input of every child is a      *)
(* sequence of complete lines of one event each, and a Send that returns   *)
(* success has put exactly its own line on the pipe and left nothing in    *)
(* the buffer.                                                             *)
C8_LinesNeverInterleave ==
    /\ [](\A p \in Pids : CompleteLines(childIn[p]))
    /\ [][\A s \in Senders :
             (sendRes'[s] = "ok" /\ sendRes[s] # "ok")
                => /\ wbuf' = <<>>
                   /\ childIn'[stdin] = childIn[stdin] \o Append(Line(s), NL)]_vars

(* one line is on the pipe, a second caller is inside Send and a third     *)
(* event waits for the lock                                                *)
C8_Witness ==
    \E s, t \in Senders :
        /\ s # t /\ pc[s] = "flush" /\ inbox[t] /\ pc[t] = "idle"
        /\ stdin \in live /\ childIn[stdin] = Append(Line(t), NL)

(* C9: the two sinks do not block each other. An event that has arrived on *)
(* a task's connection is handed to the pipe even if the publish of an     *)
(* earlier event never returns, and an event that is being written to the  *)
(* pipe reaches the publisher even if the child does not read its input.   *)
C9_SinksIndependent ==
    \A s \in Senders :
        /\ (startRes = "handle" /\ inbox[s]) ~> ~inbox[s]
        /\ (pc[s] \in {"write", "nl", "flush"}) ~> (pc[s] = "publish")

(* C10: whichever publisher is in use (no-op, real and succeeding, real    *)
(* and failing on every call) the pipe is sent the same sequence of        *)
(* events; a publish error is logged once, the publish is not retried, and *)
(* the task goes on.                                                       *)
C10_PipeSameForAllPublishers ==
    /\ \A k \in PubKinds : fan[k].pipe = fan["noop"].pipe /\ fan[k].alive
    /\ fan["fail"].calls = fanCount /\ fan["fail"].logged = fanCount
    /\ fan["ok"].calls = fanCount /\ fan["ok"].logged = 0
    /\ fan["noop"].calls = 0 /\ fan["noop"].logged = 0

C10_Witness ==
    /\ fanCount = MaxFanEvents /\ fan["fail"].logged >= 2
    /\ Len(fan["fail"].pipe) >= 2
    /\ \E i \in 1..Len(fan["fail"].pipe) : fan["fail"].pipe[i].type = "trade"

(* ---------------------------------------------------------------------- *)
(* Rolling windows                                                         *)
(* ---------------------------------------------------------------------- *)
(* the time the latest RecordTrade of a symbol took for "now" *)
LastNow(s) == trades[s][Len(trades[s])].t

(* C11: after any sequence of RecordTrade calls (any symbols, any time     *)
(* stamps, any sizes), every entry of a symbol's price window and volume   *)
(* window is at most lookback older than "now"; taken here at the moment   *)
(* the claim is weakest, right after an insertion into that symbol, with   *)
(* "now" the time of that insertion.                                       *)
C11_WindowsHoldNoExpiredEntry ==
    \A s \in Symbols :
        trades[s] # <<>> =>
            /\ \A i \in 1..Len(priceHistory[s]) :
                   priceHistory[s][i].t >= LastNow(s) - lookback
            /\ \A i \in 1..Len(volumeHistory[s]) :
                   volumeHistory[s][i].t >= LastNow(s) - lookback

(* the calls of a symbol came with strictly increasing time stamps *)
Increasing(h) == \A i \in 1..Len(h), j \in 1..Len(h) : i < j => h[i].t < h[j].t

(* the calls of a symbol came in time-stamp order *)
NonDecreasing(h) == \A i \in 1..Len(h), j \in 1..Len(h) : i < j => h[i].t <= h[j].t

(* the sum of size over the first n trades of h with time stamp > cut *)
RECURSIVE SumSizes(_, _, _)
SumSizes(h, n, cut) ==
    IF n = 0 THEN 0
    ELSE SumSizes(h, n - 1, cut) + (IF h[n].t > cut THEN h[n].v ELSE 0)

(* the sum of size over the symbol's trades with time stamp > cut *)
TradedAfter(s, cut) == SumSizes(trades[s], Len(trades[s]), cut)

(* C12 as stated: for calls with strictly increasing time stamps,          *)
(* volumeSince(symbol, d) is the sum of size over that symbol's trades     *)
(* with time stamp > now - d, at whatever time now it is read.             *)
C12_VolumeIsSumOfRecentTrades ==
    \A s \in Symbols, d \in Durations, now \in Times :
        Increasing(trades[s]) => volumeSince(s, d, now) = TradedAfter(s, now - d)

(* C12 amended: for calls with strictly increasing time stamps none of     *)
(* which is more than lookback - d later than now, volumeSince(symbol, d)  *)
(* is the sum of size over that symbol's trades with time stamp > now - d; *)
(* and in whatever order the calls came it never exceeds that sum, so it   *)
(* never counts a point d or more old, let alone one older than lookback.  *)
C12_VolumeIsSumOfRecentTradesNotAhead ==
    \A s \in Symbols :
        /\ Increasing(trades[s]) =>
               \A d \in Durations, now \in Times :
                   (\A i \in 1..Len(trades[s]) : trades[s][i].t <= now + lookback - d)
                   => volumeSince(s, d, now) = TradedAfter(s, now - d)
        /\ \A d \in Durations, now \in Times :
               /\ volumeSince(s, d, now) <= TradedAfter(s, now - d)
               /\ volumeSince(s, d, now) <= TradedAfter(s, now - lookback)

(* three trades of A one after the other, the first too old for the five   *)
(* minutes read at lookback + 1 and the other two inside them, while B has *)
(* none: volume_5m of A is the sum of the two, that of B is 0; read a       *)
(* minute earlier, the trade stamped a minute ahead of the clock counts.   *)
C12_Witness ==
    /\ Len(trades["A"]) = 3 /\ Increasing(trades["A"])
    /\ trades["A"][1].t = Minute /\ trades["A"][1].v = 10
    /\ trades["A"][2].t = lookback /\ trades["A"][2].v = 20
    /\ trades["A"][3].t = lookback + Minute /\ trades["A"][3].v = 10
    /\ volumeSince("A", 5 * Minute, lookback + Minute) = 30
    /\ volumeSince("A", 5 * Minute, lookback) = 30
    /\ volumeSince("A", Minute, lookback + Minute) = 10
    /\ volumeSince("B", 5 * Minute, lookback + Minute) = 0

(* prices a caller passes for "current" *)
Currents == {in.p : in \in TradeInputs}

(* the points of the symbol's price window at or before cut *)
AtOrBefore(s, cut) == {i \in 1..Len(priceHistory[s]) : priceHistory[s][i].t <= cut}

(* returnSince returns what the claim says: 0 when no point is at or      *)
(* before now - d or current <= 0 or the matched price <= 0, else          *)
(* (current - past) / past for a point of greatest time stamp at or before *)
(* now - d                                                                 *)
ReturnAsClaimed(s, cur, d, now) ==
    LET Q == AtOrBefore(s, now - d)
        r == returnSince(s, cur, d, now)
    IN  IF Q = {} \/ cur <= 0 THEN r = Ratio(0, 1)
        ELSE \E i \in Q :
                /\ \A j \in Q : priceHistory[s][j].t <= priceHistory[s][i].t
                /\ LET past == priceHistory[s][i].p
                   IN  r = IF past <= 0 THEN Ratio(0, 1) ELSE Ratio(cur - past, past)

(* C13 as stated: returnSince matches the point with the greatest time     *)
(* stamp at or before now - d for every insertion order of the trades.     *)
C13_ReturnFromLatestPointAnyOrder ==
    \A s \in Symbols, cur \in Currents, d \in Durations, now \in Times :
        ReturnAsClaimed(s, cur, d, now)

(* C13 amended: the same, for trades of the symbol recorded in time-stamp  *)
(* order.                                                                  *)
C13_ReturnFromLatestPointInOrder ==
    \A s \in Symbols :
        NonDecreasing(trades[s]) =>
            \A cur \in Currents, d \in Durations, now \in Times :
                ReturnAsClaimed(s, cur, d, now)

(* 100 at t = 0 and 101 one minute later: return_1m read at that minute is *)
(* (101 - 100) / 100, and return_5m is 0 for want of an old enough point.  *)
C13_Witness ==
    /\ priceHistory["A"] = <<[t |-> 0, p |-> 100], [t |-> Minute, p |-> 101]>>
    /\ returnSince("A", 101, Minute, Minute) = <<1, 100>>
    /\ returnSince("A", 101, 5 * Minute, Minute) = <<0, 1>>
    /\ returnSince("A", 0, Minute, Minute) = <<0, 1>>

(* ---------------------------------------------------------------------- *)
(* Session                                                                 *)
(* ---------------------------------------------------------------------- *)
(* the minute of the day on the exchange's (New York's) clocks *)
ExchangeMinute(now) ==
    (now.min + MinutesPerDay - (IF now.dst THEN 4 ELSE 5) * 60) % MinutesPerDay

(* the session of a minute of the day, as the claim gives it *)
SessionOf(m) ==
    IF m < 9 * 60 + 30 THEN "pre_open"
    ELSE IF m <= 15 * 60 + 59 THEN "regular"
    ELSE "post_close"

RECURSIVE PriceAfter(_, _)
PriceAfter(h, n) ==
    IF n = 0 THEN <<>>
    ELSE TrimFront(Append(PriceAfter(h, n - 1), [t |-> h[n].t, p |-> h[n].p]),
                   h[n].t - lookback)

(* the volume window after the first n calls of h, each made as a whole *)
RECURSIVE VolumeAfter(_, _)
VolumeAfter(h, n) ==
    IF n = 0 THEN <<>>
    ELSE IF h[n].v > 0
         THEN TrimFront(Append(VolumeAfter(h, n - 1), [t |-> h[n].t, v |-> h[n].v]),
                        h[n].t - lookback)
         ELSE VolumeAfter(h, n - 1)

(* the calls of RecordTrade on a symbol that hold the lock and have not   *)
(* returned                                                                *)
InFlight(s) == {w \in Writers : wpc[w] # "idle" /\ wargs[w].sym = s}

(* C15: concurrent RecordTrade calls are serialized (one at a time holds   *)
(* the lock, and between calls the windows are what the calls give when    *)
(* applied one after the other in the order they took the lock), and a     *)
(* concurrent volumeSince / returnSince reads a window entirely before or  *)
(* entirely after any RecordTrade: the window as it is after the calls     *)
(* that returned, or after those and the one in flight, each applied as a  *)
(* whole, never one with the point appended and the trim still to come.    *)
C15_ReadsSeeWholeRecordTrades ==
    /\ \A w1 \in Writers, w2 \in Writers :
           (wpc[w1] # "idle" /\ wpc[w2] # "idle") => w1 = w2
    /\ (\A w \in Writers : wpc[w] = "idle") =>
           \A s \in Symbols :
               /\ priceHistory[s] = PriceAfter(trades[s], Len(trades[s]))
               /\ volumeHistory[s] = VolumeAfter(trades[s], Len(trades[s]))
    /\ \A r \in Readers :
           rpc[r] = "read" =>
               LET h == trades[seen[r].sym]
               IN  \E k \in 0..Len(h) :
                      /\ k >= Len(h) - Cardinality(InFlight(seen[r].sym))
                      /\ seen[r].h = IF seen[r].kind = "price"
                                     THEN PriceAfter(h, k)
                                     ELSE VolumeAfter(h, k)

(* both readers hold the read lock and have read the two windows of A      *)
(* after two RecordTrade calls, the second of which evicted the point of   *)
(* the first, while a caller of RecordTrade would have to wait             *)
C15_Witness ==
    /\ rpc["r1"] = "read" /\ rpc["r2"] = "read"
    /\ seen["r1"].kind = "price" /\ seen["r1"].sym = "A"
    /\ seen["r2"].kind = "volume" /\ seen["r2"].sym = "A"
    /\ Len(trades["A"]) = 2 /\ trades["A"][2].v > 0
    /\ Len(seen["r1"].h) = 1 /\ Len(seen["r2"].h) = 1
    /\ smuR = Readers /\ smuW = ""

(* ---------------------------------------------------------------------- *)
(* Volatility                                                              *)
(* ---------------------------------------------------------------------- *)
(* the value given to a symbol by the latest of the first n calls that     *)
(* mentions it, unset when none does                                       *)
RECURSIVE LastMention(_, _, _)
LastMention(calls, n, sym) ==
    IF n = 0 THEN Unset
    ELSE IF sym \in DOMAIN calls[n] THEN calls[n][sym]
    ELSE LastMention(calls, n - 1, sym)

(* C16: after any sequence of SetVolatility and SetVolatilityMap calls,    *)
(* the stored volatility of each symbol is the value of the most recent    *)
(* call that mentioned it, a symbol a call does not mention keeps its      *)
(* value, and no key is ever removed.                                      *)
C16_LastWriteWins ==
    \A sym \in Symbols :
        /\ stateVolatility[sym] = LastMention(volCalls, Len(volCalls), sym)
        /\ (\E n \in 1..Len(volCalls) : sym \in DOMAIN volCalls[n])
               => stateVolatility[sym] # Unset

(* A was set by a call of SetVolatility, then a call of SetVolatilityMap   *)
(* that mentions only B left A's value in place, then a call mentioning    *)
(* both replaced both.                                                     *)
C16_Witness ==
    /\ Len(volCalls) = 3
    /\ DOMAIN volCalls[1] = {"A"} /\ volCalls[1]["A"] = <<1, 1>>
    /\ DOMAIN volCalls[2] = {"B"}
    /\ DOMAIN volCalls[3] = Symbols /\ volCalls[3]["A"] = <<2, 1>>
    /\ stateVolatility["A"] = <<2, 1>>
    /\ stateVolatility["B"] = volCalls[3]["B"]
    /\ GetVolatility("A") = <<2, 1>>

(* the bars the last refresh had for a symbol: none without an entry *)
BarsOf(sym) ==
    IF sym \in DOMAIN refresh.resp.Bars THEN refresh.resp.Bars[sym] ELSE <<>>

(* a volatility that is a number >= 0: set, not NaN, not negative *)
FiniteNonNegative(v) ==
    v # Unset /\ v # NaN /\ v[1] >= 0 /\ v[2] > 0

(* bars whose closes are all the same positive close: every log return is  *)
(* 0, so the variance is 0                                                 *)
Flat(bars) ==
    \A i \in 1..Len(bars) : bars[i] # ZeroClose /\ bars[i] = bars[1]

(* C17: after every volatility refresh, a symbol that had fewer than 2     *)
(* bars keeps its stored volatility, a symbol that had 2 or more bars has  *)
(* a finite volatility >= 0, which is 0 when the variance is not positive, *)
(* and neither the volatility map nor the State holds NaN or a negative    *)
(* value.                                                                  *)
C17_RefreshStoresFiniteOrKeeps ==
    /\ (refresh # NoRefresh /\ ~refresh.resp.err) =>
          \A sym \in Symbols :
              IF Len(BarsOf(sym)) < 2
              THEN /\ volatility[sym] = refresh.before[sym]
                   /\ stateVolatility[sym] = refresh.before[sym]
              ELSE /\ FiniteNonNegative(volatility[sym])
                   /\ Flat(BarsOf(sym)) => volatility[sym] = <<0, 1>>
    /\ \A sym \in Symbols :
          /\ volatility[sym] = Unset \/ FiniteNonNegative(volatility[sym])
          /\ stateVolatility[sym] = Unset \/ FiniteNonNegative(stateVolatility[sym])

(* the events of one operation the last refresh emitted for a symbol *)
Emitted(op, sym) ==
    {i \in 1..Len(refresh.trace) :
        /\ refresh.trace[i].op = op
        /\ refresh.trace[i].type = "volatility"
        /\ refresh.trace[i].payload.symbol = sym
        /\ refresh.trace[i].payload.annualized_vol_30d = volatility[sym]}

(* the steps of the last refresh that are neither its first step nor an    *)
(* event of a configured symbol                                            *)
Strays ==
    {i \in 2..Len(refresh.trace) :
        \/ refresh.trace[i].op \notin {"Send", "PublishJSON"}
        \/ \A k \in 1..Len(Tickers) :
              i \notin Emitted(refresh.trace[i].op, Tickers[k])}

(* C18: a successful volatility refresh first pushes the map into the      *)
(* State and then emits, for every configured symbol, exactly one          *)
(* volatility event to the publisher and (when there is a pipe) to the     *)
(* pipe if the symbol's value is positive, and none if it is zero or unset.*)
C18_PushThenOneEventPerPositive ==
    (refresh # NoRefresh /\ ~refresh.resp.err) =>
        /\ refresh.trace[1].op = "SetVolatilityMap"
        /\ \A sym \in Symbols :
              \/ volatility[sym] = Unset
              \/ /\ sym \in DOMAIN refresh.trace[1].payload
                 /\ refresh.trace[1].payload[sym] = volatility[sym]
                 /\ stateVolatility[sym] = volatility[sym]
        /\ Strays = {}
        /\ \A k \in 1..Len(Tickers) :
              LET sym == Tickers[k]
                  one == IF FiniteNonNegative(volatility[sym]) /\ volatility[sym][1] > 0
                         THEN 1 ELSE 0
              IN  /\ Cardinality(Emitted("PublishJSON", sym)) = one
                  /\ Cardinality(Emitted("Send", sym)) =
                         (IF brainPipe = "handle" THEN one ELSE 0)

(* C18 witness: a refresh with a pipe after which one symbol has a         *)
(* positive volatility and one event on each sink, and another symbol has  *)
(* volatility 0 and no event.                                              *)
C18_Witness ==
    /\ refresh # NoRefresh /\ ~refresh.resp.err
    /\ brainPipe = "handle"
    /\ \E a, b \in Symbols :
          /\ FiniteNonNegative(volatility[a]) /\ volatility[a][1] > 0
          /\ Cardinality(Emitted("Send", a)) = 1
          /\ Cardinality(Emitted("PublishJSON", a)) = 1
          /\ volatility[b] = <<0, 1>>
          /\ Emitted("Send", b) = {} /\ Emitted("PublishJSON", b) = {}
          /\ stateVolatility[a] = volatility[a]

(* a frame that is a control response without an error: an array whose     *)
(* first object has T = success or T = subscription                        *)
ControlOk(f) ==
    f.ok /\ Len(f.arr) > 0 /\ f.arr[1] \in {"success", "subscription"}

(* C19: Run goes through connecting, authenticating, subscribing and       *)
(* streaming in that order; the subscribe message is written only after a  *)
(* non-error control response to auth has been read, no callback is        *)
(* invoked before the acknowledgment of the subscribe has been read, and a *)
(* Run that has failed is disconnected with its connection closed.         *)
C19_HandshakeBeforeStreaming ==
    /\ runPc = "connecting" => conn = "none" /\ wrote = <<>> /\ frames = <<>>
    /\ runPc = "authenticating" => conn = "open" /\ wrote = <<>> /\ frames = <<>>
    /\ runPc = "subscribing" => conn = "open" /\ wrote = <<"auth">>
    /\ runPc = "streaming" => conn = "open" /\ wrote = <<"auth", "subscribe">>
    /\ Len(wrote) >= 2 =>
          /\ wrote = <<"auth", "subscribe">>
          /\ Len(frames) >= 1 /\ ControlOk(frames[1])
    /\ dispatched # <<>> => Len(frames) >= 2 /\ ControlOk(frames[2])
    /\ runErr # "" => runPc = "disconnected" /\ conn # "open"

(* the last Run got past its two control reads *)
ReachedStreaming ==
    /\ wrote = <<"auth", "subscribe">>
    /\ Len(frames) >= 2
    /\ frames[2].ok /\ Len(frames[2].arr) > 0 /\ frames[2].arr[1] # "error"

(* the messages with a given T in the decodable frames read from the i-th  *)
(* frame on                                                                *)
RECURSIVE Msgs(_, _)
Msgs(T, i) ==
    IF i > Len(frames) THEN 0
    ELSE (IF frames[i].ok
          THEN Cardinality({j \in 1..Len(frames[i].arr) : frames[i].arr[j] = T})
          ELSE 0)
         + Msgs(T, i + 1)

(* the invocations of a callback *)
Calls(cb) ==
    Cardinality({i \in 1..Len(dispatched) : dispatched[i] = cb})

(* C20: while streaming, a frame that cannot be decoded is logged and      *)
(* skipped: Run goes on with its connection open, every message of a       *)
(* decodable frame read in the loop is dispatched to its callback,         *)
(* whatever was read before it, and Run ends only with a read error.       *)
C20_UndecodableFramesSkipped ==
    ReachedStreaming =>
        /\ slogged = Cardinality({i \in 3..Len(frames) : ~frames[i].ok})
        /\ Calls("OnTrade") = (IF client = "price" THEN Msgs("t", 3) ELSE 0)
        /\ Calls("OnQuote") = (IF client = "price" THEN Msgs("q", 3) ELSE 0)
        /\ Calls("OnNews") = (IF client = "news" THEN Msgs("n", 3) ELSE 0)
        /\ \/ runPc = "streaming" /\ conn = "open" /\ runErr = ""
           \/ runPc = "disconnected" /\ conn = "closed" /\ runErr = "read"

(* C20 witness: a Run that is still streaming after it read a frame that   *)
(* could not be decoded and then a frame whose message went to a callback. *)
C20_Witness ==
    /\ ReachedStreaming
    /\ runPc = "streaming" /\ conn = "open"
    /\ Len(frames) >= 4
    /\ ~frames[3].ok
    /\ frames[4].ok /\ handleMessage(client, frames[4].arr) # <<>>
    /\ slogged = 1
    /\ dispatched = handleMessage(client, frames[4].arr)

(* the errors Run returns for a failed dial, write or read *)
IOErrors == {"dial", "auth write", "subscribe write", "read"}

(* C21: a stream client does not heal itself: a Run that has returned has  *)
(* returned an error, a dial, read or write error in any state makes it    *)
(* return that error, the connection of a Run that has returned is closed, *)
(* and one Run dials at most once and writes the auth message at most once.*)
C21_RunNeverSelfHeals ==
    /\ dials <= 1
    /\ Cardinality({i \in 1..Len(wrote) : wrote[i] = "auth"}) <= 1
    /\ ioErrs > 0 => runPc = "disconnected" /\ runErr \in IOErrors /\ ioErrs = 1
    /\ (runs > 0 /\ runPc = "disconnected") => runErr # ""
    /\ runPc = "disconnected" => conn # "open"
    /\ (runPc = "disconnected" /\ wrote # <<>>) => conn = "closed"
    /\ runPc \in {"authenticating", "subscribing", "streaming"} =>
          conn = "open" /\ dials = 1 /\ runErr = ""

(* C21 witness: a Run that was streaming has met a read error and has      *)
(* returned it with its connection closed.                                 *)
C21_Witness ==
    /\ runPc = "disconnected" /\ runErr = "read" /\ conn = "closed"
    /\ ReachedStreaming /\ Len(frames) >= 3
    /\ dials = 1 /\ ioErrs = 1

(* C30: a control response with an error code read while authenticating or *)
(* subscribing makes Run return an error at once with the socket closed;   *)
(* after an error answer to auth no subscribe message and no second auth   *)
(* message is written.                                                     *)
C30_ControlErrorEndsRun ==
    \A i \in 1..Len(frames) :
        (i <= 2 /\ frames[i].ok /\ Len(frames[i].arr) > 0 /\ frames[i].arr[1] = "error")
        => /\ runPc = "disconnected" /\ conn = "closed"
           /\ runErr = "alpaca stream error"
           /\ Len(frames) = i
           /\ wrote = SubSeq(<<"auth", "subscribe">>, 1, i)
           /\ dispatched = <<>> /\ dials = 1

(* C30 witness: the answer to auth was an error and Run has returned. *)
C30_Witness ==
    /\ Len(frames) = 1
    /\ frames[1] = [ok |-> TRUE, arr |-> <<"error">>]
    /\ wrote = <<"auth">>
    /\ runPc = "disconnected" /\ conn = "closed"

(* C22: while ctx is not cancelled, a stream task whose Run has returned   *)
(* sleeps and then calls Run again, however many times Run has returned    *)
(* before; a task stops only after cancellation, and the return of one     *)
(* stream's Run changes no other task.                                     *)
C22_ReconnectWithoutLimit ==
    /\ [][\A s \in Streams :
            /\ (taskPc[s] = "check" /\ taskPc'[s] # "check" /\ ~cancelled)
                   => taskPc'[s] = "sleep"
            /\ (taskPc[s] = "sleep" /\ taskPc'[s] # "sleep")
                   => taskPc'[s] = "run" /\ runCalls'[s] = runCalls[s] + 1
            /\ (taskPc[s] = "run" /\ taskPc'[s] # "run")
                   => /\ taskPc'[s] = "check"
                      /\ \A t \in Tasks \ {s} : taskPc'[t] = taskPc[t]
                      /\ tickReady' = tickReady
            /\ \A t \in Tasks :
                   (taskPc[t] # "stopped" /\ taskPc'[t] = "stopped") => cancelled
         ]_vars
    /\ \A s \in Streams :
          (taskPc[s] = "check" /\ ~cancelled /\ runCalls[s] < MaxRunCalls)
              ~> (taskPc[s] = "run" \/ cancelled \/ ~Running)

(* C22 witness: the price task is in its third Run, after two returns,     *)
(* while the news task waits to reconnect and both timers wait.            *)
C22_Witness ==
    /\ ~cancelled /\ mainPc = "waiting"
    /\ taskPc["price"] = "run" /\ runCalls["price"] >= 3
    /\ taskPc["news"] = "sleep"
    /\ \A t \in Timers : taskPc[t] = "wait"
    /\ "fetch" \in effects

(* C23: after the cancellation, a timer task runs no further tick and a    *)
(* stream task that is in its reconnect delay starts no new Run.           *)
C23_StopsWithinOneIteration ==
    [][cancelled =>
          /\ \A t \in Timers : taskPc[t] # "tick" => taskPc'[t] # "tick"
          /\ \A s \in Streams : taskPc[s] = "sleep" => taskPc'[s] # "run"
      ]_vars

(* C25: with a missing credential or an empty symbol list the process has  *)
(* exited with a non-zero status and has done nothing: no child spawned,   *)
(* no publisher connection, no fetch, no dial, no task started.            *)
C25_FailFast ==
    (mainPc # "start"
        /\ (cfg.APIKeyID = "" \/ cfg.APISecretKey = "" \/ cfg.Tickers = <<>>))
    => /\ mainPc = "exited" /\ exitCode > 0
       /\ effects = {}
       /\ supervisor = "none"
       /\ \A t \in Tasks : taskPc[t] = "unborn"

(* C25 witness: everything is configured but the symbol list is empty, and *)
(* the process has exited with status 1.                                   *)
C25_Witness ==
    /\ mainPc = "exited" /\ exitCode = 1
    /\ cfg.APIKeyID # "" /\ cfg.APISecretKey # "" /\ cfg.Tickers = <<>>
    /\ cfg.BrainCmd # "" /\ cfg.RedisURL # "" /\ cfg.StreamingMode
    /\ effects = {}

(* C26: when the process that had started its tasks has ended after an     *)
(* interrupt or a termination signal, ctx was cancelled and the            *)
(* Decision-Process Supervisor is closed.                                  *)
C26_SignalClosesSupervisor ==
    (signalled # "" /\ mainPc \in {"exited", "killed"} /\ runCalls["price"] > 0)
    => cancelled /\ supervisor # "running"

(* C27: the process pointer, the stream, the writer and the down flag of   *)
(* the handle change only in a step that takes the lock; whenever the lock *)
(* is free and the handle is up, the process pointer and the writer are    *)
(* not nil and are those of the one installed child; and a Send that       *)
(* writes, writes through the writer of the installed child.               *)
C27_HandleFieldsUnderLock ==
    /\ [](startRes = "handle" =>
            /\ (mu = "free" /\ ~closed) =>
                  /\ cmd # Nil /\ stdin # Nil /\ stdinPipe # Nil
                  /\ stdin = cmd /\ stdinPipe = cmd
            /\ \A s \in Senders :
                  pc[s] \in {"write", "nl", "flush"} =>
                      mu = s /\ stdin # Nil /\ stdin = cmd)
    /\ [][(startRes = "handle"
             /\ <<cmd, stdinPipe, stdin, closed>>' # <<cmd, stdinPipe, stdin, closed>>)
          => mu = "free" /\ mu' = "free"]_vars

(* C27 witness: a second child is installed: the lock is free, the handle  *)
(* is up and its fields are those of that child.                           *)
C27_Witness ==
    /\ startRes = "handle" /\ mu = "free" /\ ~closed
    /\ nspawn = 2 /\ cmd = 2 /\ stdin = 2 /\ stdinPipe = 2

(* C28: once Close has set the shutdown flag, the supervision loop starts  *)
(* no new child process and does not mark the handle up again.             *)
C28_NoRestartAfterShutdown ==
    [][shutdown => (nspawn' = nspawn /\ (closed => closed'))]_vars

(* the callbacks the messages of one frame ask for, from message j on, in  *)
(* the order of the messages                                               *)
RECURSIVE FrameCalls(_, _)
FrameCalls(arr, j) ==
    IF j > Len(arr) THEN <<>>
    ELSE CallbackOf(client, arr[j]) \o FrameCalls(arr, j + 1)

(* the callbacks the frames read by the loop of Run ask for, from frame i  *)
(* on, in the order of arrival                                             *)
RECURSIVE Arrived(_)
Arrived(i) ==
    IF i > Len(frames) THEN <<>>
    ELSE (IF frames[i].ok THEN FrameCalls(frames[i].arr, 1) ELSE <<>>)
         \o Arrived(i + 1)

(* C24: the callbacks of a Run are invoked in the order of the frames read *)
(* by its loop and, within a frame, in the order of its messages; and the  *)
(* lines written to the pipe are lines of those invocations, in the order  *)
(* of the invocations.                                                     *)
C24_DeliveredInArrivalOrder ==
    /\ dispatched = Arrived(3)
    /\ \A i \in 1..Len(piped) :
          /\ piped[i].n \in 1..Len(dispatched)
          /\ piped[i].type = dispatched[piped[i].n]
    /\ \A i, j \in 1..Len(piped) : i < j => piped[i].n < piped[j].n

(* C24 witness: a frame with a trade and a quote, then a frame with a      *)
(* trade; the three callbacks ran in that order and the first and the last *)
(* wrote their lines.                                                      *)
C24_Witness ==
    /\ client = "price" /\ Len(frames) = 4
    /\ frames[3].arr = <<"t", "q">> /\ frames[4].arr = <<"t">>
    /\ dispatched = <<"OnTrade", "OnQuote", "OnTrade">>
    /\ piped = <<[type |-> "OnTrade", n |-> 1], [type |-> "OnTrade", n |-> 3]>>

(* C29: a trade or quote callback that ran with the handle up (a pipe was  *)
(* started, its child is alive and no shutdown was requested) wrote        *)
(* exactly one line to the child's input: the line of its payload.         *)
C29_OneLinePerCallback ==
    (callback.typ \in {"trade", "quote"} /\ brainPipe = "handle" /\ callback.up)
    => callback.lines = <<[type |-> callback.typ, payload |-> callback.payload]>>

(* C31: Run does not stay blocked in the read of the response to its auth  *)
(* message for longer than the timeout.                                    *)
C31_AuthReadTimesOut ==
    runPc = "awaiting" => waited <= AuthTimeout

(* a trade or quote object whose symbol or whose price is missing or of    *)
(* another type                                                            *)
Malformed(m) ==
    \/ m.T = "t" /\ (~m.S.ok \/ ~m.p.ok)
    \/ m.T = "q" /\ (~m.S.ok \/ ~m.bp.ok \/ ~m.ap.ok)

(* the positions <<f, j>> of the objects handled *)
Positions ==
    {<<f, j>> \in (1..Len(handled)) \X (1..2) : j <= Len(handled[f])}

(* C32: no callback is invoked for a malformed trade or quote object, and  *)
(* every other trade and quote object of the frames handled has its one    *)
(* call.                                                                   *)
C32_MalformedMessageSkipped ==
    /\ \A i \in 1..Len(invoked) : ~Malformed(handled[invoked[i].f][invoked[i].j])
    /\ \A pos \in Positions :
          LET m == handled[pos[1]][pos[2]]
          IN  (m.T \in {"t", "q"} /\ ~Malformed(m)) =>
                  Cardinality({i \in 1..Len(invoked) :
                      invoked[i].f = pos[1] /\ invoked[i].j = pos[2]}) = 1

(* what an object asks the cache to hold: the price of a trade, the mid of *)
(* a quote, as handleMessage computes them                                 *)
CacheValue(m) ==
    IF m.T = "t" THEN (IF m.p.ok THEN m.p.v ELSE 0)
    ELSE IF m.T = "q"
    THEN ((IF m.bp.ok THEN m.bp.v ELSE 0) + (IF m.ap.ok THEN m.ap.v ELSE 0)) \div 2
    ELSE 0

(* the positions of the objects for symbol sym with a positive price or    *)
(* mid                                                                     *)
Setting(sym) ==
    {pos \in Positions :
        LET m == handled[pos[1]][pos[2]]
        IN  m.S.ok /\ m.S.v = sym /\ CacheValue(m) > 0}

(* the last of a set of positions *)
Latest(ps) ==
    CHOOSE pos \in ps : \A q \in ps :
        q[1] < pos[1] \/ (q[1] = pos[1] /\ q[2] <= pos[2])

(* C33: the cache holds, for each symbol, the price of the latest trade    *)
(* with a positive price or the mid of the latest quote with a positive    *)
(* mid, whichever was handled last, and nothing else: no entry for a       *)
(* symbol without such an object, no entry for the empty symbol, no value  *)
(* of 0 or less.                                                           *)
C33_LastKnownPrice ==
    /\ "" \notin DOMAIN prices
    /\ \A sym \in DOMAIN prices : prices[sym] > 0
    /\ \A sym \in {"A", "B"} :
          IF Setting(sym) = {} THEN sym \notin DOMAIN prices
          ELSE /\ sym \in DOMAIN prices
               /\ prices[sym] =
                     CacheValue(handled[Latest(Setting(sym))[1]][Latest(Setting(sym))[2]])

(* C33 witness: a trade of A at 100, then a quote of A with mid 101 and a  *)
(* trade of A at 0, and a quote without a symbol: the cache holds the mid. *)
C33_Witness ==
    /\ Len(handled) = 2
    /\ handled[1] = <<[T |-> "t", S |-> Str("A"), p |-> Num(100), bp |-> NoNum, ap |-> NoNum]>>
    /\ handled[2][1].T = "q" /\ handled[2][1].S.ok /\ handled[2][1].bp.ok
    /\ Len(handled[2]) = 2
    /\ handled[2][2] = [T |-> "t", S |-> Str("A"), p |-> Num(0), bp |-> NoNum, ap |-> NoNum]
    /\ DOMAIN prices = {"A"} /\ prices["A"] = 101

(* the ids of the entries tagged "n" of the frames read from frame i on,   *)
(* in the order of the frames and of the entries                           *)
RECURSIVE NewsIds(_)
NewsIds(i) ==
    IF i > Len(nhandled) THEN <<>>
    ELSE LET arr == nhandled[i].arr
             tagged == SelectSeq(arr, LAMBDA m : m.T = "n")
         IN  [k \in 1..Len(tagged) |-> tagged[k].ID] \o NewsIds(i + 1)

(* C40: a news client made with no symbols subscribes to "*"; the articles *)
(* handed to OnNews are the entries tagged "n", each once, in the order of *)
(* the frames and of their entries; and Run does not return in a turn that *)
(* read a frame.                                                           *)
C40_NewsDispatch ==
    /\ [](/\ (nsPc \in {"streaming", "returned"} /\ nsym = <<>>) => nsub = <<"*">>
          /\ articles = NewsIds(1))
    /\ [][nhandled' # nhandled => nsPc' = "streaming"]_vars

(* C40 witness: no symbols, subscribed to "*", and after a frame with an   *)
(* article, a trade and then a frame with two articles Run is still        *)
(* reading.                                                                *)
C40_Witness ==
    /\ nsym = <<>> /\ nsub = <<"*">> /\ nsPc = "streaming"
    /\ Len(nhandled) = 2
    /\ nhandled[1].arr = <<[T |-> "n", ID |-> 2], [T |-> "t", ID |-> 3]>>
    /\ nhandled[2].arr = <<[T |-> "n", ID |-> 1], [T |-> "n", ID |-> 2]>>
    /\ articles = <<2, 1, 2>>

(* C34: a call of updateVolatility whose GetBars fails emits no event and  *)
(* leaves the volatility map and the State as they were; it makes the one  *)
(* fetch it was given, and updateVolatility can be called again after it.  *)
C34_FailedFetchKeepsAll ==
    /\ []((refresh # NoRefresh /\ refresh.resp.err) =>
             /\ refresh.trace = <<>>
             /\ volatility = refresh.before
             /\ ENABLED (\E resp \in BarsResponses : updateVolatility(resp)))
    /\ [][(refresh' # refresh /\ refresh'.resp.err) =>
             /\ volatility' = volatility
             /\ stateVolatility' = stateVolatility
             /\ volCalls' = volCalls]_vars

(* C34 witness: a refresh stored a volatility for A, and the call after it *)
(* failed: nothing was emitted and the value is still there.               *)
C34_Witness ==
    /\ refresh # NoRefresh /\ refresh.resp.err
    /\ Len(volCalls) = 1
    /\ Positive(volatility["A"]) /\ stateVolatility["A"] = volatility["A"]
    /\ refresh.trace = <<>>

(* C35: run()'s volatility map and the State's volatility map hold the     *)
(* same value for every symbol, and so do what a payload takes from the    *)
(* one and GetVolatility returns from the other; every call of             *)
(* SetVolatilityMap was made by a refresh.                                 *)
C35_VolatilityMapsAgree ==
    /\ \A sym \in Symbols :
          /\ stateVolatility[sym] = volatility[sym]
          /\ GetVolatility(sym) = VolOf(sym)
    /\ Len(volCalls) > 0 => refresh # NoRefresh

(* C35 witness: after two refreshes the maps hold a value for A from the   *)
(* first one and a value for B from the second.                            *)
C35_Witness ==
    /\ Len(volCalls) = 2
    /\ "A" \in DOMAIN volCalls[1] /\ "B" \notin DOMAIN volCalls[1]
    /\ volatility["B"] # Unset /\ stateVolatility["B"] = volatility["B"]
    /\ stateVolatility["A"] = volCalls[1]["A"]
    /\ ~refresh.resp.err /\ "A" \notin DOMAIN refresh.resp.Bars

(* C36: the first updateVolatility() has returned before the price and     *)
(* news stream tasks exist: a stream task that has been started, or a dial *)
(* that has been made, comes after the first fetch of the bars, and main   *)
(* is past its start-up.                                                   *)
C36_FirstRefreshBeforeStreams ==
    /\ \A s \in Streams :
          taskPc[s] # "unborn" =>
              /\ "fetch" \in effects
              /\ mainPc \notin {"start", "brain", "oneshot", "tasks"}
    /\ "dial" \in effects => "fetch" \in effects
    /\ mainPc = "tasks" => "fetch" \in effects

(* C36 witness: both stream tasks are in their first Run, no timer has     *)
(* ticked yet, and the bars have been fetched.                             *)
C36_Witness ==
    /\ mainPc = "waiting"
    /\ \A s \in Streams : taskPc[s] = "run" /\ runCalls[s] = 1
    /\ \A t \in Timers : taskPc[t] = "select" /\ ~tickReady[t]
    /\ "fetch" \in effects

(* the number POSITIONS_INTERVAL_SEC was set to, when it is one *)
Configured == Atoi(posEnv)

(* C37: the positions timer polls every cfg.PositionsIntervalSec seconds,  *)
(* and that interval is within 5..300: a configured number below 5 gives   *)
(* 5, one above 300 gives 300, an unset or non-numeric value the default.  *)
C37_PollsEveryClampedInterval ==
    pollPc # "unloaded" =>
        /\ intervalSec \in MinIntervalSec..MaxIntervalSec
        /\ (posEnv = <<>> \/ Configured.err) => intervalSec = DefaultIntervalSec
        /\ (posEnv # <<>> /\ ~Configured.err) =>
              /\ Configured.n < MinIntervalSec => intervalSec = MinIntervalSec
              /\ Configured.n > MaxIntervalSec => intervalSec = MaxIntervalSec
              /\ Configured.n \in MinIntervalSec..MaxIntervalSec =>
                    intervalSec = Configured.n
        /\ pollPc = "polling" => period = intervalSec

(* the types of the events the last poll emitted, in order *)
PolledTypes == [i \in 1..Len(polled.trace) |-> polled.trace[i].type]

(* C38: a poll emits the positions event before the orders event; when the *)
(* positions fetch fails it emits nothing, when the orders fetch fails it  *)
(* emits the positions event only; the timer task stays in its loop after  *)
(* either failure and polls again at the next tick.                        *)
C38_PollOrderAndFailures ==
    /\ [](polls > 0 =>
            /\ ~polled.posOk => polled.trace = <<>>
            /\ (polled.posOk /\ ~polled.ordOk) =>
                  /\ polled.trace # <<>>
                  /\ \A i \in DOMAIN PolledTypes : PolledTypes[i] = "positions"
            /\ (polled.posOk /\ polled.ordOk) =>
                  /\ PolledTypes[1] = "positions"
                  /\ PolledTypes[Len(PolledTypes)] = "orders"
                  /\ \A i, j \in DOMAIN PolledTypes :
                        (PolledTypes[i] = "orders" /\ PolledTypes[j] = "positions")
                            => j < i
            /\ pollPc = "polling"
            /\ (sinceTick = period /\ polls < MaxPolls) =>
                  ENABLED (\E up, posOk, ordOk \in BOOLEAN :
                              PollTick(up, posOk, ordOk)))
    /\ [][polls' > polls => (pollPc' = "polling" /\ sinceTick' = 0)]_vars

(* C38 witness: the second poll of a run failed at the positions fetch,    *)
(* emitted nothing, and the timer has counted on to its next tick.         *)
C38_Witness ==
    /\ polls = 2
    /\ ~polled.posOk /\ polled.ordOk
    /\ polled.trace = <<>>
    /\ pollPc = "polling" /\ sinceTick = period

(* C39: a quote callback leaves the price window and the volume window of  *)
(* every symbol as they were, and the volumes in its payload are sums over *)
(* the trades recorded for its symbol: with no trade recorded they are 0   *)
(* and so are the returns.                                                 *)
C39_QuotesLeaveWindows ==
    /\ [](callback.typ = "quote" =>
            LET sym == callback.payload.symbol
            IN  /\ \E t \in MsgTimes :
                      /\ callback.payload.volume_1m =
                             SumAfter(trades[sym], t - Minute)
                      /\ callback.payload.volume_5m =
                             SumAfter(trades[sym], t - 5 * Minute)
                /\ trades[sym] = <<>> =>
                      /\ callback.payload.volume_5m = 0
                      /\ callback.payload.return_1m = Ratio(0, 1)
                      /\ callback.payload.return_5m = Ratio(0, 1)
                /\ Len(priceHistory[sym]) = Len(trades[sym]))
    /\ [][(cbCount' > cbCount /\ callback'.typ = "quote") =>
             /\ priceHistory' = priceHistory
             /\ volumeHistory' = volumeHistory
             /\ trades' = trades]_vars

(* C39 witness: a quote for A arrived after a trade of A: its payload      *)
(* carries the size of that trade as volume_5m, and the windows hold the   *)
(* one trade.                                                              *)
C39_Witness ==
    /\ callback.typ = "quote" /\ callback.payload.symbol = "A"
    /\ cbCount = 2
    /\ Len(trades["A"]) = 1 /\ Len(priceHistory["A"]) = 1
    /\ Len(volumeHistory["A"]) = 1
    /\ callback.payload.volume_5m = trades["A"][1].v
    /\ callback.payload.volume_5m > 0

====
